---------------------------- MODULE Spec2Model ----------------------------
(***************************************************************************)
(* A model of the core of iotex-core:                                      *)
(*   - dispatcher/dispatcher.go   IotxDispatcher (event queue, consumer)   *)
(*   - db/batch.go                cachedBatch (write queue, cache,         *)
(*                                snapshots)                               *)
(*   - endorsement/endorsementset.go   Set                                 *)
(* Each component has its own specifications (RoutingSpec, QueueSpec and   *)
(* LifecycleSpec for the dispatcher, BatchSpec, EndorsementSpec); the      *)
(* variables of the other components are left unchanged by them.           *)
(***************************************************************************)
EXTENDS Integers, Sequences, FiniteSets, TLC

(***************************************************************************)
(* Bounds of the model.                                                    *)
(***************************************************************************)
\* RoutingSpec: HandleBroadcast / HandleTell calls, AddSubscriber calls
RoutingMaxSubmit == 2
RoutingMaxAdd == 2
\* QueueSpec: HandleBroadcast / HandleTell calls
QueueMaxSubmit == 3
\* LifecycleSpec: HandleBroadcast calls, Start calls, Stop calls
LifecycleMaxSubmit == 3
MaxStart == 2
MaxStop == 2
\* AfterStopSpec: HandleBroadcast / HandleTell calls
AfterStopMaxSubmit == 2

\* cfg.Dispatcher.EventChanSize: the capacity of eventChan
EventChanSize == 2

\* BatchSpec: operations on the cached batch
MaxBatchOps == 5
\* ConcurrentSpec: goroutines that call the cached batch, calls made
NumWriters == 2
MaxConcurrentOps == 3
\* EndorsementSpec: AddEndorsement calls, highest round of an endorsement
MaxEndorseCalls == 4
MaxRound == 2
\* CountSpec: AddEndorsement calls, length of the endorser list given to
\* NumOfValidEndorsements
MaxCountAdds == 2
\* ProtoSpec: AddEndorsement calls
MaxProtoAdds == 2
MaxPbList == 2
MaxSetAdds == 1
\* StopSpec: handleStopSubChain calls, the stop heights and nonces of the
\* actions, the heights of the state manager
MaxStopCalls == 2
MaxStopHeight == 2
MaxNonce == 2
MaxChainHeight == 1
\* BaseBatchSpec: operations on the base batch
MaxBaseOps == 3
\* TargetSpec: SetTargetHeight calls, the highest height passed, Sync ticks
MaxSetTarget == 3
MaxHeight == 2
MaxTargetTicks == 1
\* SyncSpec: Sync ticks, intervals the buffer returns to one tick,
\* SetTargetHeight calls
MaxTicks == 3
MaxIntervals == 3
MaxSyncSets == 1
MaxEndorserList == 2

ChainIDs == {1, 2}
Subscribers == {"s1", "s2"}
\* the message bodies and the sender addresses callers pass in
Bodies == {"b1", "b2"}
Senders == {"n1", "n2"}
\* threads of the outer node that may be inside HandleBroadcast at a time
NumCallers == 2

None == "none"

\* pb.Msg*Type, and a type GetTypeFromProtoMsg does not know
MsgActionType == "MsgActionType"
MsgBlockProtoMsgType == "MsgBlockProtoMsgType"
MsgBlockSyncReqType == "MsgBlockSyncReqType"
MsgBlockSyncDataType == "MsgBlockSyncDataType"
MsgConsensusType == "MsgConsensusType"
MsgUnknownType == "MsgUnknownType"
MsgTypes ==
    {MsgActionType, MsgBlockProtoMsgType, MsgBlockSyncReqType,
     MsgBlockSyncDataType, MsgConsensusType, MsgUnknownType}

VARIABLES
    \* ---- IotxDispatcher ----
    started,        \* d.started
    shutdown,       \* d.shutdown
    eventChan,      \* the buffer of d.eventChan, oldest first
    sendq,          \* goroutines parked in "d.eventChan <- event", oldest first
    eventAudit,     \* d.eventAudit
    wg,             \* the counter of d.wg
    quit,           \* TRUE once d.quit is closed
    subscribers,    \* d.subscribers
    subscribersMU,  \* d.subscribersMU: [readers, writer]
    pendingWrite,   \* the map write of the AddSubscriber call holding the lock
    goroutines,     \* the goroutines of enqueueEvent that have not sent yet
    consumers,      \* the newsHandler goroutines, in spawn order
    starters,       \* Start calls past the guard: [add, spawn]
    stoppers,       \* Stop calls past the guard: [close, wait]
    inConsensus,    \* the invocations of HandleConsensusMsg in progress
    crashed,        \* the runtime has stopped the process (fatal error, panic)
    \* ---- history of the dispatcher (not program state) ----
    calls,          \* the HandleBroadcast / HandleTell calls, in call order
    log,            \* the subscriber handler invocations, in invocation order
    enq,            \* the ids of the events placed in eventChan, in that order
    consumed,       \* the ids of the events received from eventChan, in order
    dropped,        \* the ids of the events enqueueEvent dropped
    nAdd,           \* AddSubscriber calls made
    startRes,       \* Start calls that have returned: [ok, err]
    stopRes,        \* Stop calls that have returned
    afterStop,      \* the places in calls of the calls made after a Stop call
                    \* had returned
    \* ---- cachedBatch ----
    cbLock,         \* cb.lock is held by a caller of Lock
    writeQueue,     \* the writeQueue of cb.KVStoreBatch
    KVStoreCache,   \* the contents of the cache cb.KVStoreCache points to
    cacheRef,       \* 0, or k when cb.KVStoreCache and cb.cacheShots[k-1] are
                    \* one and the same cache object
    tag,            \* cb.tag
    batchShots,     \* cb.batchShots
    cacheShots,     \* the contents of the caches in cb.cacheShots
    \* ---- history of the cached batch (not program state) ----
    taken,          \* per valid token t, at t+1: the queue and the cache as
                    \* they were when Snapshot returned t
    bLast,          \* the last operation on the batch and its result
    bOps,           \* operations made on the batch
    nSnap,          \* Snapshot calls made since the last Clear
    discarded,      \* the tokens whose snapshot a Clear or a Revert below
                    \* them has discarded at some time
    \* ---- endorsement.Set ----
    blkHash,        \* s.blkHash
    round,          \* s.round
    endorsements,   \* s.endorsements
    \* ---- history of the endorsement set (not program state) ----
    added,          \* the endorsements AddEndorsement accepted
    eLast,          \* the last AddEndorsement call: whose endorsement, for
                    \* which topic, and the error returned
    eCalls,         \* AddEndorsement calls made
    eRet,           \* what the last call on the set returned, if that call
                    \* was NumOfValidEndorsements, with its arguments
    decoded,        \* a second Set, the receiver of FromProto, and the error
                    \* FromProto returned
    sLast,          \* the last SetRound or FromProto call on the set: the
                    \* round or the message passed, the locked round before
                    \* the call, and the error returned
    \* ---- blocksync.syncWorker ----
    targetHeight,   \* w.targetHeight
    rrIdx,          \* w.rrIdx
    \* ---- history of the sync worker (not program state) ----
    wPassed,        \* the heights SetTargetHeight was called with
    wLast,          \* the last Sync tick: the peers and the intervals it got,
                    \* and the unicast requests it made
    lastReq,        \* the list position and the peer list of the latest
                    \* unicast request of an earlier tick
    wSets,          \* SetTargetHeight calls made
    wTicks,         \* Sync ticks made
    \* ---- baseKVStoreBatch: the batch NewBatch returns ----
    baseMutex,      \* b.mutex is held
    baseWriteQueue, \* b.writeQueue
    \* ---- history of the base batch (not program state) ----
    nLast,          \* the last call on the base batch: the operation, the
                    \* write it asked for and the error returned
    nOps,           \* calls made on the base batch
    \* ---- protocol.StateManager passed to mainchain.Protocol ----
    smStates,       \* the states of sm: key -> value
    \* ---- history of the sub-chain protocol (not program state) ----
    stopLast,       \* the last handleStopSubChain call: the action, the
                    \* height of sm, the error returned and the keys the
                    \* call wrote to sm, in order
    stopCalls,      \* handleStopSubChain calls made
    \* ---- the goroutines that call the cached batch at the same time ----
    callers         \* for each goroutine: the statement of Put, Delete,
                    \* PutIfNotExists or Snapshot it is at, the call it is
                    \* in and the error the call returns

dvars ==
    <<started, shutdown, eventChan, sendq, eventAudit, wg, quit, subscribers,
      subscribersMU, pendingWrite, goroutines, consumers, starters, stoppers,
      inConsensus, crashed, calls, log, enq, consumed, dropped, nAdd, startRes,
      stopRes, afterStop>>

bvars ==
    <<cbLock, writeQueue, KVStoreCache, cacheRef, tag, batchShots, cacheShots,
      taken, bLast, bOps, nSnap, discarded>>

evars ==
    <<blkHash, round, endorsements, added, eLast, eCalls, eRet, decoded,
      sLast>>

wvars == <<targetHeight, rrIdx, wPassed, wLast, lastReq, wSets, wTicks>>

nvars == <<baseMutex, baseWriteQueue, nLast, nOps>>

pvars == <<smStates, stopLast, stopCalls>>

cvars == <<callers>>

vars == <<dvars, bvars, evars, wvars, nvars, pvars, cvars>>

(***************************************************************************)
(* Dispatcher: helpers                                                     *)
(***************************************************************************)
NoEvent == [id |-> 0, kind |-> None, chainID |-> 0, body |-> None,
            blkType |-> None, sender |-> None]

\* &actionMsg{chainID, msg}
actionMsg(id, chainID, body) ==
    [id |-> id, kind |-> "actionMsg", chainID |-> chainID, body |-> body,
     blkType |-> None, sender |-> None]

\* &blockMsg{chainID, block, blkType}
blockMsg(id, chainID, body, blkType) ==
    [id |-> id, kind |-> "blockMsg", chainID |-> chainID, body |-> body,
     blkType |-> blkType, sender |-> None]

\* &blockSyncMsg{chainID, sender, sync}
blockSyncMsg(id, chainID, sender, body) ==
    [id |-> id, kind |-> "blockSyncMsg", chainID |-> chainID, body |-> body,
     blkType |-> None, sender |-> sender]

\* a HandleBroadcast without its MsgConsensusType case: the consensus message
\* takes the road of an action
BroadcastRouteAllQueued(msgType) ==
    CASE msgType \in {MsgConsensusType, MsgActionType} -> "dispatchAction"
      [] msgType = MsgBlockProtoMsgType -> "dispatchBlockCommit"
      [] OTHER -> "unexpected"

\* the switch of HandleBroadcast
BroadcastRoute(msgType) ==
    CASE msgType = MsgConsensusType -> "consensus"
      [] msgType = MsgActionType -> "dispatchAction"
      [] msgType = MsgBlockProtoMsgType -> "dispatchBlockCommit"
      [] OTHER -> "unexpected"

\* the switch of HandleTell
TellRoute(msgType) ==
    CASE msgType = MsgBlockSyncReqType -> "dispatchBlockSyncReq"
      [] msgType = MsgBlockSyncDataType -> "dispatchBlockSyncData"
      [] OTHER -> "unexpected"

\* a dispatch function without the shutdown test
IsShutdownNever(n) == FALSE

\* the guard of the dispatch* functions: atomic.LoadInt32(&d.shutdown) != 0
IsShutdown(n) == n # 0

\* a Start whose guard lets the first two calls through
StartAdmittedTwice(n) == n <= 2

\* a Start whose guard lets every call through
StartAdmittedAlways(n) == n >= 1

\* the guard of Start: atomic.AddInt32(&d.started, 1) != 1 is "already started"
StartAdmitted(n) == n = 1

\* a Stop whose guard lets every call through
StopAdmittedAlways(n) == n >= 1

\* the guard of Stop: atomic.AddInt32(&d.shutdown, 1) != 1 is "already stopping"
StopAdmitted(n) == n = 1

\* the guard of enqueueEvent: len(d.eventChan) == cap(d.eventChan)
ChanFull(buf) == Len(buf) = EventChanSize

\* d.eventChan <- event, by a goroutine: the value enters the buffer when it
\* has room, and the goroutine parks in the channel's send queue otherwise
ChanSend(buf, sq, ev) ==
    IF Len(buf) < EventChanSize
    THEN [buf |-> Append(buf, ev), sq |-> sq]
    ELSE [buf |-> buf, sq |-> Append(sq, ev)]

\* m := <-d.eventChan on a non-empty buffer: the oldest value leaves, and the
\* longest-parked sender, if any, completes its send
ChanRecv(buf, sq) ==
    IF sq = <<>>
    THEN [buf |-> Tail(buf), sq |-> sq]
    ELSE [buf |-> Append(Tail(buf), Head(sq)), sq |-> Tail(sq)]

\* d.eventAudit[t]++
updateEventAudit(audit, t) == [audit EXCEPT ![t] = @ + 1]

\* the map after the write of the AddSubscriber call that holds the lock
WrittenMap == [subscribers EXCEPT ![pendingWrite.chainID] = pendingWrite.sub]

\* d.subscribers[chainID] read with subscribersMU held for reading
LockedLookup(chainID) == subscribers[chainID]

\* d.subscribers[chainID] read without the lock. While an AddSubscriber call
\* is writing the map this is a data race: the runtime either stops the
\* process ("concurrent map read and map write") or the read sees the map
\* before or after the write. "fatal" stands for the former.
UnlockedLookup(chainID) ==
    IF subscribersMU.writer
    THEN {"fatal", subscribers[chainID], WrittenMap[chainID]}
    ELSE {subscribers[chainID]}

Invocation(id, sub, method, ev) ==
    [id |-> id, sub |-> sub, method |-> method, chainID |-> ev.chainID,
     body |-> ev.body, sender |-> ev.sender]

\* a newsHandler goroutine at its select; err is what the last subscriber
\* handler it called returned
Idle == [pc |-> "select", ev |-> NoEvent, locked |-> FALSE, inv |-> 0,
         err |-> FALSE]

(***************************************************************************)
(* Dispatcher: initial state (NewDispatcher)                               *)
(***************************************************************************)
DInit ==
    /\ started = 0
    /\ shutdown = 0
    /\ eventChan = <<>>
    /\ sendq = <<>>
    /\ eventAudit = [t \in MsgTypes |-> 0]
    /\ wg = 0
    /\ quit = FALSE
    /\ subscribers = [c \in ChainIDs |-> None]
    /\ subscribersMU = [readers |-> 0, writer |-> FALSE]
    /\ pendingWrite = [chainID |-> 0, sub |-> None]
    /\ goroutines = {}
    /\ consumers = <<>>
    /\ starters = [add |-> 0, spawn |-> 0]
    /\ stoppers = [close |-> 0, wait |-> 0]
    /\ inConsensus = {}
    /\ crashed = FALSE
    /\ calls = <<>>
    /\ log = <<>>
    /\ enq = <<>>
    /\ consumed = <<>>
    /\ dropped = {}
    /\ nAdd = 0
    /\ startRes = [ok |-> 0, err |-> 0]
    /\ stopRes = 0
    /\ afterStop = {}

(***************************************************************************)
(* Dispatcher: operations                                                  *)
(***************************************************************************)
Call(kind, chainID, msgType, body, sender, registered, returned) ==
    [kind |-> kind, chainID |-> chainID, msgType |-> msgType, body |-> body,
     sender |-> sender, registered |-> registered, returned |-> returned]

\* enqueueEvent(event): "go func() { ... }()" starts a goroutine and returns
enqueueEvent(ev) == goroutines' = goroutines \cup {[ev |-> ev, pc |-> "check"]}

\* AddSubscriber, first half: d.subscribersMU.Lock()
AddSubscriberLock(chainID, sub) ==
    /\ ~crashed
    /\ subscribersMU.readers = 0 /\ ~subscribersMU.writer
    /\ subscribersMU' = [subscribersMU EXCEPT !.writer = TRUE]
    /\ pendingWrite' = [chainID |-> chainID, sub |-> sub]
    /\ nAdd' = nAdd + 1
    /\ UNCHANGED <<started, shutdown, eventChan, sendq, eventAudit, wg, quit,
                   subscribers, goroutines, consumers, starters, stoppers,
                   inConsensus, crashed, calls, log, enq, consumed, dropped,
                   startRes, stopRes>>
    /\ UNCHANGED afterStop
    /\ UNCHANGED <<bvars, evars, wvars, nvars, pvars, cvars>>

\* AddSubscriber, second half: d.subscribers[chainID] = subscriber; Unlock()
AddSubscriberWrite ==
    /\ ~crashed
    /\ subscribersMU.writer
    /\ subscribers' = WrittenMap
    /\ subscribersMU' = [subscribersMU EXCEPT !.writer = FALSE]
    /\ pendingWrite' = [chainID |-> 0, sub |-> None]
    /\ UNCHANGED <<started, shutdown, eventChan, sendq, eventAudit, wg, quit,
                   goroutines, consumers, starters, stoppers, inConsensus,
                   crashed, calls, log, enq, consumed, dropped, nAdd,
                   startRes, stopRes>>
    /\ UNCHANGED afterStop
    /\ UNCHANGED <<bvars, evars, wvars, nvars, pvars, cvars>>

\* HandleBroadcast(chainID, message). The lookup under RLock, the
\* load of d.shutdown and the start of the goroutine are one step: subscribers
\* are never removed and d.shutdown never returns to 0, so a call whose steps
\* interleave with other threads has the effect of this step taken at the time
\* of its lookup or at the time of its load. A Consensus message leaves the
\* calling thread inside subscriber.HandleConsensusMsg until ConsensusReturn;
\* inConsensus holds the places in log of the invocations in progress.
HandleBroadcast(chainID, msgType, body) ==
    /\ ~crashed
    /\ Cardinality(inConsensus) < NumCallers
    /\ ~subscribersMU.writer
    /\ LET id == Len(calls) + 1
           sub == LockedLookup(chainID)
           route == BroadcastRoute(msgType)
           sync == sub # None /\ route = "consensus"
       IN  /\ calls' = Append(calls, Call("broadcast", chainID, msgType, body,
                                          None, sub # None, ~sync))
           /\ IF sync
              THEN /\ log' = Append(log, Invocation(id, sub, "HandleConsensusMsg",
                                        [chainID |-> chainID, body |-> body,
                                         sender |-> None]))
                   /\ inConsensus' = inConsensus \cup {Len(log) + 1}
              ELSE UNCHANGED <<log, inConsensus>>
           /\ IF sub # None /\ ~IsShutdown(shutdown)
                 /\ route \in {"dispatchAction", "dispatchBlockCommit"}
              THEN IF route = "dispatchAction"
                   THEN enqueueEvent(actionMsg(id, chainID, body))
                   ELSE enqueueEvent(blockMsg(id, chainID, body,
                                              MsgBlockProtoMsgType))
              ELSE UNCHANGED goroutines
    /\ UNCHANGED <<started, shutdown, eventChan, sendq, eventAudit, wg, quit,
                   subscribers, subscribersMU, pendingWrite, consumers,
                   starters, stoppers, crashed, enq, consumed, dropped, nAdd,
                   startRes, stopRes>>
    /\ afterStop' = IF stopRes >= 1 THEN afterStop \cup {Len(calls) + 1}
                    ELSE afterStop
    /\ UNCHANGED <<bvars, evars, wvars, nvars, pvars, cvars>>

\* subscriber.HandleConsensusMsg returns (with or without an error) and
\* HandleBroadcast returns
ConsensusReturn(k, err) ==
    /\ ~crashed
    /\ k \in inConsensus
    /\ calls' = [calls EXCEPT ![log[k].id].returned = TRUE]
    /\ inConsensus' = inConsensus \ {k}
    /\ UNCHANGED <<started, shutdown, eventChan, sendq, eventAudit, wg, quit,
                   subscribers, subscribersMU, pendingWrite, goroutines,
                   consumers, starters, stoppers, crashed, log, enq, consumed,
                   dropped, nAdd, startRes, stopRes>>
    /\ UNCHANGED afterStop
    /\ UNCHANGED <<bvars, evars, wvars, nvars, pvars, cvars>>

\* HandleTell(chainID, sender, message): no subscriber lookup
HandleTell(chainID, sender, msgType, body) ==
    /\ ~crashed
    /\ LET id == Len(calls) + 1
           route == TellRoute(msgType)
       IN  /\ calls' = Append(calls, Call("tell", chainID, msgType, body, sender,
                                          subscribers[chainID] # None, TRUE))
           /\ IF route # "unexpected" /\ ~IsShutdown(shutdown)
              THEN IF route = "dispatchBlockSyncReq"
                   THEN enqueueEvent(blockSyncMsg(id, chainID, sender, body))
                   ELSE enqueueEvent(blockMsg(id, chainID, body,
                                              MsgBlockSyncDataType))
              ELSE UNCHANGED goroutines
    /\ UNCHANGED <<started, shutdown, eventChan, sendq, eventAudit, wg, quit,
                   subscribers, subscribersMU, pendingWrite, consumers,
                   starters, stoppers, inConsensus, crashed, log, enq, consumed,
                   dropped, nAdd, startRes, stopRes>>
    /\ afterStop' = IF stopRes >= 1 THEN afterStop \cup {Len(calls) + 1}
                    ELSE afterStop
    /\ UNCHANGED <<bvars, evars, wvars, nvars, pvars, cvars>>

\* the goroutine of enqueueEvent: if len(d.eventChan) == cap(d.eventChan)
\* { warn; return }
GoCheck(g) ==
    /\ ~crashed
    /\ g \in goroutines /\ g.pc = "check"
    /\ IF ChanFull(eventChan)
       THEN /\ goroutines' = goroutines \ {g}
            /\ dropped' = dropped \cup {g.ev.id}
       ELSE /\ goroutines' = (goroutines \ {g}) \cup {[g EXCEPT !.pc = "send"]}
            /\ UNCHANGED dropped
    /\ UNCHANGED <<started, shutdown, eventChan, sendq, eventAudit, wg, quit,
                   subscribers, subscribersMU, pendingWrite, consumers,
                   starters, stoppers, inConsensus, crashed, calls, log, enq,
                   consumed, nAdd, startRes, stopRes>>
    /\ UNCHANGED afterStop
    /\ UNCHANGED <<bvars, evars, wvars, nvars, pvars, cvars>>

\* the goroutine of enqueueEvent: d.eventChan <- event
GoSend(g) ==
    /\ ~crashed
    /\ g \in goroutines /\ g.pc = "send"
    /\ LET ch == ChanSend(eventChan, sendq, g.ev)
       IN  /\ eventChan' = ch.buf
           /\ sendq' = ch.sq
           /\ enq' = IF ch.buf # eventChan THEN Append(enq, g.ev.id) ELSE enq
    /\ goroutines' = goroutines \ {g}
    /\ UNCHANGED <<started, shutdown, eventAudit, wg, quit, subscribers,
                   subscribersMU, pendingWrite, consumers, starters, stoppers,
                   inConsensus, crashed, calls, log, consumed, dropped, nAdd,
                   startRes, stopRes>>
    /\ UNCHANGED afterStop
    /\ UNCHANGED <<bvars, evars, wvars, nvars, pvars, cvars>>

\* a handleBlockMsg that does not look at blkType
HandlerForAnyBlock(ev) ==
    CASE ev.kind = "actionMsg" -> "HandleAction"
      [] ev.kind = "blockMsg" -> "HandleBlock"
      [] ev.kind = "blockSyncMsg" -> "HandleSyncRequest"
      [] OTHER -> None

\* the handler a consumed event is passed to: the type switch of newsHandler
\* and the blkType test of handleBlockMsg
HandlerFor(ev) ==
    CASE ev.kind = "actionMsg" -> "HandleAction"
      [] ev.kind = "blockMsg" /\ ev.blkType = MsgBlockProtoMsgType -> "HandleBlock"
      [] ev.kind = "blockMsg" /\ ev.blkType = MsgBlockSyncDataType -> "HandleBlockSync"
      [] ev.kind = "blockSyncMsg" -> "HandleSyncRequest"
      [] OTHER -> None

\* the message type the handle*Msg functions pass to updateEventAudit
AuditType(ev) ==
    CASE ev.kind = "actionMsg" -> MsgActionType
      [] ev.kind = "blockSyncMsg" -> MsgBlockSyncReqType
      [] OTHER -> ev.blkType

\* newsHandler, "case m := <-d.eventChan", by consumer i. An actionMsg or a
\* blockSyncMsg goes through handleActionMsg / handleBlockSyncMsg up to the
\* call of the subscriber: the audit count, then the lookup without the lock.
\* A blockMsg is left in front of the RLock of handleBlockMsg.
Receive(i) ==
    /\ ~crashed
    /\ i \in 1..Len(consumers)
    /\ consumers[i].pc = "select"
    /\ eventChan # <<>>
    /\ LET m == Head(eventChan)
           ch == ChanRecv(eventChan, sendq)
       IN  /\ eventChan' = ch.buf
           /\ sendq' = ch.sq
           /\ enq' = IF ch.sq # sendq THEN Append(enq, Head(sendq).id) ELSE enq
           /\ consumed' = Append(consumed, m.id)
           /\ IF m.kind = "blockMsg"
              THEN /\ consumers' = [consumers EXCEPT ![i] =
                            [consumers[i] EXCEPT !.pc = "rlock", !.ev = m]]
                   /\ UNCHANGED <<eventAudit, log, crashed>>
              ELSE /\ eventAudit' = updateEventAudit(eventAudit, AuditType(m))
                   /\ \E r \in UnlockedLookup(m.chainID) :
                        /\ crashed' = (r = "fatal")
                        /\ IF r \in Subscribers
                           THEN /\ log' = Append(log, Invocation(m.id, r,
                                                     HandlerFor(m), m))
                                /\ consumers' = [consumers EXCEPT ![i] =
                                      [consumers[i] EXCEPT
                                          !.pc = "handling", !.ev = m,
                                          !.inv = Len(log) + 1]]
                           ELSE /\ UNCHANGED <<consumers, log>>
    /\ UNCHANGED <<started, shutdown, wg, quit, subscribers, subscribersMU,
                   pendingWrite, goroutines, starters, stoppers, inConsensus,
                   calls, dropped, nAdd, startRes, stopRes>>
    /\ UNCHANGED afterStop
    /\ UNCHANGED <<bvars, evars, wvars, nvars, pvars, cvars>>

\* handleBlockMsg from d.subscribersMU.RLock() to the call of the subscriber;
\* the read lock is held until the handler returns (defer RUnlock)
RLockBlock(i) ==
    /\ ~crashed
    /\ i \in 1..Len(consumers)
    /\ consumers[i].pc = "rlock"
    /\ ~subscribersMU.writer
    /\ LET m == consumers[i].ev
           sub == LockedLookup(m.chainID)
       IN  IF sub # None /\ HandlerFor(m) # None
           THEN /\ eventAudit' = updateEventAudit(eventAudit, AuditType(m))
                /\ log' = Append(log, Invocation(m.id, sub, HandlerFor(m), m))
                /\ consumers' = [consumers EXCEPT ![i] =
                                   [consumers[i] EXCEPT
                                       !.pc = "handling", !.locked = TRUE,
                                       !.inv = Len(log) + 1]]
                /\ subscribersMU' = [subscribersMU EXCEPT !.readers = @ + 1]
           ELSE /\ consumers' = [consumers EXCEPT ![i] = Idle]
                /\ UNCHANGED <<eventAudit, log, subscribersMU>>
    /\ UNCHANGED <<started, shutdown, eventChan, sendq, wg, quit, subscribers,
                   pendingWrite, goroutines, starters, stoppers, inConsensus,
                   crashed, calls, enq, consumed, dropped, nAdd, startRes,
                   stopRes>>
    /\ UNCHANGED afterStop
    /\ UNCHANGED <<bvars, evars, wvars, nvars, pvars, cvars>>

\* a newsHandler that leaves its loop when a handler fails
AfterHandlerStopOnError(err) == IF err THEN "exited" ELSE "select"

\* where the consumer goes when a subscriber handler returns: the error is
\* logged and the loop of newsHandler goes on
AfterHandler(err) == "select"

\* the subscriber handler called for a queued event returns
HandlerReturn(i, err) ==
    /\ ~crashed
    /\ i \in 1..Len(consumers)
    /\ consumers[i].pc = "handling"
    /\ subscribersMU' = IF consumers[i].locked
                        THEN [subscribersMU EXCEPT !.readers = @ - 1]
                        ELSE subscribersMU
    /\ consumers' = [consumers EXCEPT ![i] =
                        [Idle EXCEPT !.pc = AfterHandler(err), !.err = err]]
    /\ UNCHANGED <<started, shutdown, eventChan, sendq, eventAudit, wg, quit,
                   subscribers, pendingWrite, goroutines, starters, stoppers,
                   inConsensus, crashed, calls, log, enq, consumed, dropped,
                   nAdd, startRes, stopRes>>
    /\ UNCHANGED afterStop
    /\ UNCHANGED <<bvars, evars, wvars, nvars, pvars, cvars>>

\* which cases of the select of newsHandler can be taken: Go picks any case
\* that is ready
SelectReady(buf, q) ==
    (IF buf # <<>> THEN {"event"} ELSE {}) \cup (IF q THEN {"quit"} ELSE {})

\* newsHandler, "case <-d.quit": break loop; d.wg.Done()
ConsumerQuit(i) ==
    /\ ~crashed
    /\ i \in 1..Len(consumers)
    /\ consumers[i].pc = "select"
    /\ "quit" \in SelectReady(eventChan, quit)
    /\ consumers' = [consumers EXCEPT ![i].pc = "exited"]
    /\ wg' = wg - 1
    /\ UNCHANGED <<started, shutdown, eventChan, sendq, eventAudit, quit,
                   subscribers, subscribersMU, pendingWrite, goroutines,
                   starters, stoppers, inConsensus, crashed, calls, log, enq,
                   consumed, dropped, nAdd, startRes, stopRes>>
    /\ UNCHANGED afterStop
    /\ UNCHANGED <<bvars, evars, wvars, nvars, pvars, cvars>>

\* Start, up to the guard
StartCall ==
    /\ ~crashed
    /\ started' = started + 1
    /\ IF StartAdmitted(started + 1)
       THEN /\ starters' = [starters EXCEPT !.add = @ + 1]
            /\ UNCHANGED startRes
       ELSE /\ startRes' = [startRes EXCEPT !.err = @ + 1]
            /\ UNCHANGED starters
    /\ UNCHANGED <<shutdown, eventChan, sendq, eventAudit, wg, quit,
                   subscribers, subscribersMU, pendingWrite, goroutines,
                   consumers, stoppers, inConsensus, crashed, calls, log, enq,
                   consumed, dropped, nAdd, stopRes>>
    /\ UNCHANGED afterStop
    /\ UNCHANGED <<bvars, evars, wvars, nvars, pvars, cvars>>

\* Start: d.wg.Add(1)
StartWgAdd ==
    /\ ~crashed
    /\ starters.add > 0
    /\ wg' = wg + 1
    /\ starters' = [add |-> starters.add - 1, spawn |-> starters.spawn + 1]
    /\ UNCHANGED <<started, shutdown, eventChan, sendq, eventAudit, quit,
                   subscribers, subscribersMU, pendingWrite, goroutines,
                   consumers, stoppers, inConsensus, crashed, calls, log, enq,
                   consumed, dropped, nAdd, startRes, stopRes>>
    /\ UNCHANGED afterStop
    /\ UNCHANGED <<bvars, evars, wvars, nvars, pvars, cvars>>

\* Start: go d.newsHandler(); return nil
StartSpawn ==
    /\ ~crashed
    /\ starters.spawn > 0
    /\ consumers' = Append(consumers, Idle)
    /\ starters' = [starters EXCEPT !.spawn = @ - 1]
    /\ startRes' = [startRes EXCEPT !.ok = @ + 1]
    /\ UNCHANGED <<started, shutdown, eventChan, sendq, eventAudit, wg, quit,
                   subscribers, subscribersMU, pendingWrite, goroutines,
                   stoppers, inConsensus, crashed, calls, log, enq, consumed,
                   dropped, nAdd, stopRes>>
    /\ UNCHANGED afterStop
    /\ UNCHANGED <<bvars, evars, wvars, nvars, pvars, cvars>>

\* Stop, up to the guard
StopCall ==
    /\ ~crashed
    /\ shutdown' = shutdown + 1
    /\ IF StopAdmitted(shutdown + 1)
       THEN /\ stoppers' = [stoppers EXCEPT !.close = @ + 1]
            /\ UNCHANGED stopRes
       ELSE /\ stopRes' = stopRes + 1
            /\ UNCHANGED stoppers
    /\ UNCHANGED <<started, eventChan, sendq, eventAudit, wg, quit,
                   subscribers, subscribersMU, pendingWrite, goroutines,
                   consumers, starters, inConsensus, crashed, calls, log, enq,
                   consumed, dropped, nAdd, startRes>>
    /\ UNCHANGED afterStop
    /\ UNCHANGED <<bvars, evars, wvars, nvars, pvars, cvars>>

\* Stop: close(d.quit); closing a closed channel panics
StopClose ==
    /\ ~crashed
    /\ stoppers.close > 0
    /\ quit' = TRUE
    /\ crashed' = quit
    /\ stoppers' = [close |-> stoppers.close - 1, wait |-> stoppers.wait + 1]
    /\ UNCHANGED <<started, shutdown, eventChan, sendq, eventAudit, wg,
                   subscribers, subscribersMU, pendingWrite, goroutines,
                   consumers, starters, inConsensus, calls, log, enq, consumed,
                   dropped, nAdd, startRes, stopRes>>
    /\ UNCHANGED afterStop
    /\ UNCHANGED <<bvars, evars, wvars, nvars, pvars, cvars>>

\* Stop: d.wg.Wait(); return nil
StopWait ==
    /\ ~crashed
    /\ stoppers.wait > 0
    /\ wg = 0
    /\ stoppers' = [stoppers EXCEPT !.wait = @ - 1]
    /\ stopRes' = stopRes + 1
    /\ UNCHANGED <<started, shutdown, eventChan, sendq, eventAudit, wg, quit,
                   subscribers, subscribersMU, pendingWrite, goroutines,
                   consumers, starters, inConsensus, crashed, calls, log, enq,
                   consumed, dropped, nAdd, startRes>>
    /\ UNCHANGED afterStop
    /\ UNCHANGED <<bvars, evars, wvars, nvars, pvars, cvars>>

(***************************************************************************)
(* Cached batch (db/batch.go).  The cache behind cb.KVStoreCache is an     *)
(* object: Snapshot stores a clone of it in cb.cacheShots, Revert makes    *)
(* cb.KVStoreCache point to the stored object itself.  cacheRef says which *)
(* stored object, if any, cb.KVStoreCache is; a write to the cache is a    *)
(* write to that object.                                                   *)
(***************************************************************************)
Namespaces == {"ns"}
Keys == {"k1", "k2"}
Values == {"v1", "v2"}
Nil == "nil"

\* writeType
Put == "Put"
Delete == "Delete"
PutIfNotExists == "PutIfNotExists"

ErrNotExist == "ErrNotExist"
ErrAlreadyExist == "ErrAlreadyExist"
ErrInvalidDB == "ErrInvalidDB"
\* the error of a commit the store rejected
ErrCommit == "ErrCommit"

\* cb.hash: the digest of the namespace and the key; two different pairs
\* have two different digests
hash(namespace, key) == <<namespace, key>>

CacheHashes == {hash(ns, k) : ns \in Namespaces, k \in Keys}

\* KVStoreCache: key -> value, last writer wins
NewKVCache == [h \in CacheHashes |-> Nil]

CacheRead(c, h) ==
    IF c[h] = Nil THEN [value |-> Nil, err |-> ErrNotExist]
                  ELSE [value |-> c[h], err |-> Nil]

CacheWrite(c, h, v) == [c EXCEPT ![h] = v]

CacheWriteIfNotExist(c, h, v) ==
    IF c[h] = Nil THEN [cache |-> [c EXCEPT ![h] = v], err |-> Nil]
                  ELSE [cache |-> c, err |-> ErrAlreadyExist]

CacheEvict(c, h) == [c EXCEPT ![h] = Nil]

CacheClear(c) == NewKVCache

\* a new object with the contents of c
CacheClone(c) == c

writeInfo(op, namespace, key, value) ==
    [writeType |-> op, namespace |-> namespace, key |-> key, value |-> value]

\* a batch that puts the new write in front of the queue
batchInFront(q, op, namespace, key, value) ==
    <<writeInfo(op, namespace, key, value)>> \o q

\* baseKVStoreBatch.batch
batch(q, op, namespace, key, value) ==
    Append(q, writeInfo(op, namespace, key, value))

\* baseKVStoreBatch.truncate
truncate(q, size) == SubSeq(q, 1, size)

\* a Size that counts one entry too many
SizePlusOne == Len(writeQueue) + 1

\* baseKVStoreBatch.Size
Size == Len(writeQueue)

\* baseKVStoreBatch.Entry
Entry(index) ==
    IF index < 0 \/ index >= Len(writeQueue)
      THEN [write |-> Nil, err |-> ErrInvalidDB]
      ELSE [write |-> writeQueue[index + 1], err |-> Nil]

\* the cache object cb.KVStoreCache points to gets the contents c
WriteThrough(c) ==
    /\ KVStoreCache' = c
    /\ cacheShots' = IF cacheRef = 0 THEN cacheShots
                     ELSE [cacheShots EXCEPT ![cacheRef] = c]

BatchOp(op, snapshot, value, err) ==
    [op |-> op, snapshot |-> snapshot, value |-> value, err |-> err]

\* NewCachedBatch
BInit ==
    /\ cbLock = FALSE
    /\ writeQueue = <<>>
    /\ KVStoreCache = NewKVCache
    /\ cacheRef = 0
    /\ tag = 0
    /\ batchShots = <<>>
    /\ cacheShots = <<>>
    /\ taken = <<>>
    /\ bLast = BatchOp(None, 0, Nil, Nil)
    /\ bOps = 0
    /\ nSnap = 0
    /\ discarded = {}

\* cachedBatch.Lock
BatchLock ==
    /\ ~cbLock
    /\ cbLock' = TRUE
    /\ bLast' = BatchOp("Lock", 0, Nil, Nil)
    /\ bOps' = bOps + 1
    /\ UNCHANGED <<writeQueue, KVStoreCache, cacheRef, tag, batchShots,
                   cacheShots, taken, nSnap, discarded>>
    /\ UNCHANGED <<dvars, evars, wvars, nvars, pvars, cvars>>

\* cachedBatch.Unlock
BatchUnlock ==
    /\ cbLock
    /\ cbLock' = FALSE
    /\ bLast' = BatchOp("Unlock", 0, Nil, Nil)
    /\ bOps' = bOps + 1
    /\ UNCHANGED <<writeQueue, KVStoreCache, cacheRef, tag, batchShots,
                   cacheShots, taken, nSnap, discarded>>
    /\ UNCHANGED <<dvars, evars, wvars, nvars, pvars, cvars>>

\* a clearing that leaves the write queue as it is
ClearAllQueueKept ==
    /\ KVStoreCache' = CacheClear(KVStoreCache)
    /\ cacheRef' = 0
    /\ writeQueue' = writeQueue
    /\ tag' = 0
    /\ batchShots' = <<>>
    /\ cacheShots' = <<>>
    /\ taken' = <<>>
    /\ nSnap' = 0
    /\ discarded' = discarded \cup 0..(tag - 1)

\* a clearing that leaves the cache as it is
ClearAllCacheKept ==
    /\ KVStoreCache' = KVStoreCache
    /\ cacheRef' = 0
    /\ writeQueue' = <<>>
    /\ tag' = 0
    /\ batchShots' = <<>>
    /\ cacheShots' = <<>>
    /\ taken' = <<>>
    /\ nSnap' = 0
    /\ discarded' = discarded \cup 0..(tag - 1)

\* the body of Clear and of ClearAndUnlock
ClearAll ==
    /\ KVStoreCache' = CacheClear(KVStoreCache)
    /\ cacheRef' = 0
    /\ writeQueue' = <<>>
    /\ tag' = 0
    /\ batchShots' = <<>>
    /\ cacheShots' = <<>>
    /\ taken' = <<>>
    /\ nSnap' = 0
    /\ discarded' = discarded \cup 0..(tag - 1)

\* cachedBatch.ClearAndUnlock: the caller holds cb.lock
BatchClearAndUnlock ==
    /\ cbLock
    /\ ClearAll
    /\ cbLock' = FALSE
    /\ bLast' = BatchOp("ClearAndUnlock", 0, Nil, Nil)
    /\ bOps' = bOps + 1
    /\ UNCHANGED <<dvars, evars, wvars, nvars, pvars, cvars>>

\* cachedBatch.Clear
BatchClear ==
    /\ ~cbLock
    /\ ClearAll
    /\ bLast' = BatchOp("Clear", 0, Nil, Nil)
    /\ bOps' = bOps + 1
    /\ UNCHANGED cbLock
    /\ UNCHANGED <<dvars, evars, wvars, nvars, pvars, cvars>>

\* cachedBatch.Put
BatchPut(namespace, key, value) ==
    /\ ~cbLock
    /\ WriteThrough(CacheWrite(KVStoreCache, hash(namespace, key), value))
    /\ writeQueue' = batch(writeQueue, Put, namespace, key, value)
    /\ bLast' = BatchOp("Put", 0, writeInfo(Put, namespace, key, value), Nil)
    /\ bOps' = bOps + 1
    /\ UNCHANGED <<cbLock, cacheRef, tag, batchShots, taken, nSnap, discarded>>
    /\ UNCHANGED <<dvars, evars, wvars, nvars, pvars, cvars>>

\* a PutIfNotExists that drops the error of WriteIfNotExist and stages the
\* write all the same
BatchPutIfNotExistsStaged(namespace, key, value) ==
    /\ ~cbLock
    /\ LET r == CacheWriteIfNotExist(KVStoreCache, hash(namespace, key), value)
       IN  /\ WriteThrough(r.cache)
           /\ writeQueue' =
                 batch(writeQueue, PutIfNotExists, namespace, key, value)
           /\ bLast' = BatchOp("PutIfNotExists", 0,
                               writeInfo(PutIfNotExists, namespace, key, value),
                               r.err)
    /\ bOps' = bOps + 1
    /\ UNCHANGED <<cbLock, cacheRef, tag, batchShots, taken, nSnap, discarded>>
    /\ UNCHANGED <<dvars, evars, wvars, nvars, pvars, cvars>>

\* cachedBatch.PutIfNotExists
BatchPutIfNotExists(namespace, key, value) ==
    /\ ~cbLock
    /\ LET r == CacheWriteIfNotExist(KVStoreCache, hash(namespace, key), value)
       IN  /\ WriteThrough(r.cache)
           /\ writeQueue' =
                 IF r.err # Nil THEN writeQueue
                 ELSE batch(writeQueue, PutIfNotExists, namespace, key, value)
           /\ bLast' = BatchOp("PutIfNotExists", 0,
                               writeInfo(PutIfNotExists, namespace, key, value),
                               r.err)
    /\ bOps' = bOps + 1
    /\ UNCHANGED <<cbLock, cacheRef, tag, batchShots, taken, nSnap, discarded>>
    /\ UNCHANGED <<dvars, evars, wvars, nvars, pvars, cvars>>

\* a Delete that leaves the cache as it is
BatchDeleteCacheKept(namespace, key) ==
    /\ ~cbLock
    /\ WriteThrough(KVStoreCache)
    /\ writeQueue' = batch(writeQueue, Delete, namespace, key, Nil)
    /\ bLast' = BatchOp("Delete", 0, writeInfo(Delete, namespace, key, Nil), Nil)
    /\ bOps' = bOps + 1
    /\ UNCHANGED <<cbLock, cacheRef, tag, batchShots, taken, nSnap, discarded>>
    /\ UNCHANGED <<dvars, evars, wvars, nvars, pvars, cvars>>

\* cachedBatch.Delete
BatchDelete(namespace, key) ==
    /\ ~cbLock
    /\ WriteThrough(CacheEvict(KVStoreCache, hash(namespace, key)))
    /\ writeQueue' = batch(writeQueue, Delete, namespace, key, Nil)
    /\ bLast' = BatchOp("Delete", 0, writeInfo(Delete, namespace, key, Nil), Nil)
    /\ bOps' = bOps + 1
    /\ UNCHANGED <<cbLock, cacheRef, tag, batchShots, taken, nSnap, discarded>>
    /\ UNCHANGED <<dvars, evars, wvars, nvars, pvars, cvars>>

\* what cachedBatch.Get returns
Get(namespace, key) == CacheRead(KVStoreCache, hash(namespace, key))

\* cachedBatch.Get
BatchGet(namespace, key) ==
    /\ ~cbLock
    /\ bLast' = BatchOp("Get", 0, Get(namespace, key).value,
                        Get(namespace, key).err)
    /\ bOps' = bOps + 1
    /\ UNCHANGED <<cbLock, writeQueue, KVStoreCache, cacheRef, tag, batchShots,
                   cacheShots, taken, nSnap, discarded>>
    /\ UNCHANGED <<dvars, evars, wvars, nvars, pvars, cvars>>

\* cachedBatch.Snapshot: returns cb.tag, then cb.tag++
BatchSnapshot ==
    /\ ~cbLock
    /\ batchShots' = Append(batchShots, Size)
    /\ cacheShots' = Append(cacheShots, CacheClone(KVStoreCache))
    /\ tag' = tag + 1
    /\ taken' = Append(taken, [queue |-> writeQueue, cache |-> KVStoreCache])
    /\ nSnap' = nSnap + 1
    /\ bLast' = BatchOp("Snapshot", tag, Nil, Nil)
    /\ bOps' = bOps + 1
    /\ UNCHANGED <<cbLock, writeQueue, KVStoreCache, cacheRef, discarded>>
    /\ UNCHANGED <<dvars, evars, wvars, nvars, pvars, cvars>>

\* KVStore.Commit(b): with the batch locked, the store writes Entry(0), ...,
\* Entry(Size() - 1) in one transaction, then calls ClearAndUnlock if the
\* transaction succeeded and Unlock if it failed
Commit(ok) ==
    /\ ~cbLock
    /\ IF ok THEN ClearAll
             ELSE UNCHANGED <<writeQueue, KVStoreCache, cacheRef, tag,
                              batchShots, cacheShots, taken, nSnap, discarded>>
    /\ bLast' = BatchOp("Commit", 0, [i \in 1..Size |-> Entry(i - 1).write],
                        IF ok THEN Nil ELSE ErrCommit)
    /\ bOps' = bOps + 1
    /\ UNCHANGED cbLock
    /\ UNCHANGED <<dvars, evars, wvars, nvars, pvars, cvars>>

\* a Revert whose range test is off by one
InvalidSnapshotOffByOne(snapshot) == snapshot < 0 \/ snapshot >= tag - 1

\* Revert: "if snapshot < 0 || snapshot >= cb.tag"
InvalidSnapshot(snapshot) == snapshot < 0 \/ snapshot >= tag

\* a Revert that cuts the write queue back to the latest snapshot before it
\* finds the token out of range
RevertRejectedQueueCut(snapshot) ==
    /\ bLast' = BatchOp("Revert", snapshot, Nil, ErrInvalidDB)
    /\ writeQueue' = truncate(writeQueue, IF batchShots = <<>> THEN 0
                                          ELSE batchShots[Len(batchShots)])
    /\ UNCHANGED <<KVStoreCache, cacheRef, tag, batchShots, cacheShots,
                   taken, nSnap, discarded>>

\* Revert: the token is out of range, "return errors.Wrapf(ErrInvalidDB, ...)"
RevertRejected(snapshot) ==
    /\ bLast' = BatchOp("Revert", snapshot, Nil, ErrInvalidDB)
    /\ UNCHANGED <<writeQueue, KVStoreCache, cacheRef, tag, batchShots,
                   cacheShots, taken, nSnap, discarded>>

\* a Revert that leaves cb.tag as it is
TagAfterRevertKept(snapshot) == tag

\* Revert: cb.tag = snapshot + 1
TagAfterRevert(snapshot) == snapshot + 1

\* cachedBatch.Revert
BatchRevert(snapshot) ==
    /\ ~cbLock
    /\ IF InvalidSnapshot(snapshot)
         THEN RevertRejected(snapshot)
         ELSE /\ tag' = TagAfterRevert(snapshot)
              /\ batchShots' = SubSeq(batchShots, 1, tag')
              /\ writeQueue' = truncate(writeQueue, batchShots[snapshot + 1])
              /\ cacheShots' = SubSeq(cacheShots, 1, tag')
              /\ KVStoreCache' = cacheShots[snapshot + 1]
              /\ cacheRef' = snapshot + 1
              /\ taken' = SubSeq(taken, 1, snapshot + 1)
              /\ discarded' = discarded \cup (snapshot + 1)..(tag - 1)
              /\ UNCHANGED nSnap
              /\ bLast' = BatchOp("Revert", snapshot, Nil, Nil)
    /\ bOps' = bOps + 1
    /\ UNCHANGED cbLock
    /\ UNCHANGED <<dvars, evars, wvars, nvars, pvars, cvars>>

(***************************************************************************)
(* Endorsement set (endorsement/endorsementset.go)                         *)
(***************************************************************************)
Endorsers == {"A", "B"}
Topics == {"PROPOSAL", "LOCK"}
Hashes == {"h1", "h2"}
Rounds == 0..MaxRound

ErrExpiredEndorsement == "ErrExpiredEndorsement"
ErrInvalidHash == "ErrInvalidHash"
ErrInvalidEndorsement == "ErrInvalidEndorsement"

\* an endorsement: its endorser, the topic, round and block hash of its
\* consensus vote, and what VerifySignature returns for it
Endorsement(endorser, topic, r, h, sigOK) ==
    [endorser |-> endorser, topic |-> topic, round |-> r, blkHash |-> h,
     sigOK |-> sigOK]

Endorsements ==
    {Endorsement(a, t, r, h, ok) :
        a \in Endorsers, t \in Topics, r \in Rounds, h \in Hashes,
        ok \in BOOLEAN}

\* an AddEndorsement that also tells rounds apart when it looks for the slot
SameSlotSameRound(e, en) ==
    e.endorser = en.endorser /\ e.topic = en.topic /\ e.round = en.round

\* the two "continue" tests of the loop of AddEndorsement
SameSlot(e, en) == e.endorser = en.endorser /\ e.topic = en.topic

\* an AddEndorsement that lets an endorsement of the retained round in
SupersedesOrEqual(e, en) == e.round <= en.round

\* an AddEndorsement whose round test is turned around
SupersedesReversed(e, en) == e.round > en.round

\* the round test of AddEndorsement: en replaces e
Supersedes(e, en) == e.round < en.round

\* the first index of s.endorsements the loop of AddEndorsement stops at; 0
\* if it runs to the end
FirstSlot(ens, en) ==
    LET hits == {i \in 1..Len(ens) : SameSlot(ens[i], en)}
    IN  IF hits = {} THEN 0 ELSE CHOOSE i \in hits : \A j \in hits : i <= j

\* NewSet(blkHash)
NewSet(h) ==
    /\ blkHash = h
    /\ round = 0
    /\ endorsements = <<>>

\* no protobuf message of a set was passed
NoSetPb == [BlockHash |-> None, Round |-> 0, Endorsements |-> <<>>]

\* the last call on the set returned no count
NoRet == [topics |-> {}, endorsers |-> <<>>, cnt |-> -1]

EInit ==
    /\ NewSet("h1")
    /\ added = {}
    /\ eLast = [endorser |-> None, topic |-> None, err |-> Nil]
    /\ eCalls = 0
    /\ eRet = NoRet
    /\ decoded = [blkHash |-> "h2", round |-> 0, endorsements |-> <<>>,
                  err |-> Nil]
    /\ sLast = [op |-> None, r |-> 0, sPb |-> NoSetPb, prev |-> 0,
                err |-> Nil]

\* an AddEndorsement that verifies the signature before it compares the
\* block hashes
AddErrorSignatureFirst(en, i) ==
    IF ~en.sigOK THEN ErrInvalidEndorsement
    ELSE IF en.blkHash # blkHash THEN ErrInvalidHash
    ELSE IF i # 0 /\ ~Supersedes(endorsements[i], en)
           THEN ErrExpiredEndorsement
    ELSE Nil

\* what AddEndorsement returns: i is the index its loop stops at
AddError(en, i) ==
    IF en.blkHash # blkHash THEN ErrInvalidHash
    ELSE IF ~en.sigOK THEN ErrInvalidEndorsement
    ELSE IF i # 0 /\ ~Supersedes(endorsements[i], en)
           THEN ErrExpiredEndorsement
    ELSE Nil

\* Set.AddEndorsement
AddEndorsement(en) ==
    /\ LET i == FirstSlot(endorsements, en)
           err == AddError(en, i)
       IN  /\ endorsements' =
                 IF err # Nil THEN endorsements
                 ELSE IF i # 0 THEN [endorsements EXCEPT ![i] = en]
                 ELSE Append(endorsements, en)
           /\ added' = IF err = Nil THEN added \cup {en} ELSE added
           /\ eLast' = [endorser |-> en.endorser, topic |-> en.topic,
                        err |-> err]
    /\ eCalls' = eCalls + 1
    /\ eRet' = NoRet
    /\ UNCHANGED <<blkHash, round, decoded, sLast>>
    /\ UNCHANGED <<dvars, bvars, wvars, nvars, pvars, cvars>>

\* the endorser lists NumOfValidEndorsements is called with
EndorserLists == UNION {[1..n -> Endorsers] : n \in 0..MaxEndorserList}

\* a count that leaves the endorser in endorserSet
RECURSIVE CountFromKeeping(_, _, _, _)
CountFromKeeping(ens, topics, endorserSet, i) ==
    IF i > Len(ens) THEN 0
    ELSE IF ens[i].topic \notin topics \/ ens[i].endorser \notin endorserSet
           THEN CountFromKeeping(ens, topics, endorserSet, i + 1)
    ELSE 1 + CountFromKeeping(ens, topics, endorserSet, i + 1)

\* the second loop of NumOfValidEndorsements, from the i-th endorsement on:
\* topics is the key set of the topics map, whose values are not read
RECURSIVE CountFrom(_, _, _, _)
CountFrom(ens, topics, endorserSet, i) ==
    IF i > Len(ens) THEN 0
    ELSE IF ens[i].topic \notin topics \/ ens[i].endorser \notin endorserSet
           THEN CountFrom(ens, topics, endorserSet, i + 1)
    ELSE 1 + CountFrom(ens, topics, endorserSet \ {ens[i].endorser}, i + 1)

\* what Set.NumOfValidEndorsements returns
NumOfValidEndorsements(topics, endorsers) ==
    CountFrom(endorsements, topics,
              {endorsers[j] : j \in 1..Len(endorsers)}, 1)

\* Set.NumOfValidEndorsements
NumOfValidEndorsementsCall(topics, endorsers) ==
    /\ eRet' = [topics |-> topics, endorsers |-> endorsers,
                cnt |-> NumOfValidEndorsements(topics, endorsers)]
    /\ UNCHANGED <<blkHash, round, endorsements, added, eLast, eCalls,
                   decoded, sLast>>
    /\ UNCHANGED <<dvars, bvars, wvars, nvars, pvars, cvars>>

\* a SetRound that never lowers the locked round
SetRoundRaising(r) ==
    /\ round' = IF r > round THEN r ELSE round
    /\ sLast' = [op |-> "SetRound", r |-> r, sPb |-> NoSetPb, prev |-> round,
                 err |-> Nil]
    /\ UNCHANGED <<blkHash, endorsements, added, eLast, eCalls, eRet, decoded>>
    /\ UNCHANGED <<dvars, bvars, wvars, nvars, pvars, cvars>>

\* Set.Round
Round == round

\* Set.SetRound
SetRound(r) ==
    /\ round' = r
    /\ sLast' = [op |-> "SetRound", r |-> r, sPb |-> NoSetPb, prev |-> round,
                 err |-> Nil]
    /\ UNCHANGED <<blkHash, endorsements, added, eLast, eCalls, eRet, decoded>>
    /\ UNCHANGED <<dvars, bvars, wvars, nvars, pvars, cvars>>

ErrInvalidProto == "ErrInvalidProto"

\* the topic numbers of the protobuf message
TopicNumber(topic) == IF topic = "PROPOSAL" THEN 0 ELSE 1
TopicOfNumber(n) == IF n = 0 THEN "PROPOSAL" ELSE "LOCK"

\* Endorsement.ToProtoMsg: the protobuf message of an endorsement
ToProtoMsg(en) ==
    [Endorser |-> en.endorser, Topic |-> TopicNumber(en.topic),
     Round |-> en.round, BlockHash |-> en.blkHash, Signature |-> en.sigOK]

\* FromProtoMsg: the endorsement of a protobuf message, or an error
FromProtoMsg(ePb) ==
    IF ePb.Topic \notin {0, 1} THEN [en |-> Nil, err |-> ErrInvalidProto]
    ELSE [en |-> Endorsement(ePb.Endorser, TopicOfNumber(ePb.Topic),
                             ePb.Round, ePb.BlockHash, ePb.Signature),
          err |-> Nil]

\* Set.ToProto
ToProto ==
    [BlockHash |-> blkHash, Round |-> round,
     Endorsements |-> [i \in 1..Len(endorsements) |->
                          ToProtoMsg(endorsements[i])]]

\* the loop of FromProto from the i-th message on: ens is s.endorsements
RECURSIVE FromProtoLoop(_, _, _)
FromProtoLoop(ens, ePbs, i) ==
    IF i > Len(ePbs) THEN [endorsements |-> ens, err |-> Nil]
    ELSE IF FromProtoMsg(ePbs[i]).err # Nil
           THEN [endorsements |-> ens, err |-> FromProtoMsg(ePbs[i]).err]
    ELSE FromProtoLoop(Append(ens, FromProtoMsg(ePbs[i]).en), ePbs, i + 1)

\* a FromProto that leaves the locked round of its receiver
FromProtoRoundKept(s, sPb) ==
    LET l == FromProtoLoop(<<>>, sPb.Endorsements, 1)
    IN  [blkHash |-> sPb.BlockHash, round |-> s.round,
         endorsements |-> l.endorsements, err |-> l.err]

\* Set.FromProto: the receiver s after the call, and the error returned
FromProto(s, sPb) ==
    LET l == FromProtoLoop(<<>>, sPb.Endorsements, 1)
    IN  [blkHash |-> sPb.BlockHash, round |-> sPb.Round,
         endorsements |-> l.endorsements, err |-> l.err]

\* decoded.FromProto(s.ToProto())
FromProtoOfToProto ==
    /\ decoded' = FromProto(decoded, ToProto)
    /\ UNCHANGED <<blkHash, round, endorsements, added, eLast, eCalls, eRet,
                   sLast>>
    /\ UNCHANGED <<dvars, bvars, wvars, nvars, pvars, cvars>>

\* the protobuf messages of endorsements FromProto is called with: of
\* an endorsement of either block hash, and one with a topic number that
\* is no topic
EndorsePbs ==
    {ToProtoMsg(Endorsement("A", "LOCK", 0, h, TRUE)) : h \in Hashes}
    \cup {[Endorser |-> "A", Topic |-> 2, Round |-> 0, BlockHash |-> "h1",
            Signature |-> TRUE]}

\* the protobuf messages of sets FromProto is called with
SetPbs ==
    {[BlockHash |-> h, Round |-> r, Endorsements |-> ePbs] :
        h \in Hashes, r \in Rounds,
        ePbs \in UNION {[1..n -> EndorsePbs] : n \in 0..MaxPbList}}

\* s.FromProto(sPb)
FromProtoCall(sPb) ==
    /\ LET s == FromProto([blkHash |-> blkHash, round |-> round,
                           endorsements |-> endorsements, err |-> Nil], sPb)
       IN  /\ blkHash' = s.blkHash
           /\ round' = s.round
           /\ endorsements' = s.endorsements
           /\ sLast' = [op |-> "FromProto", r |-> 0, sPb |-> sPb,
                        prev |-> round, err |-> s.err]
    /\ eRet' = NoRet
    /\ UNCHANGED <<added, eLast, eCalls, decoded>>
    /\ UNCHANGED <<dvars, bvars, wvars, nvars, pvars, cvars>>

(***************************************************************************)
(* Sync worker (blocksync/worker.go).  SetTargetHeight and Sync hold w.mu  *)
(* from entry to return, so each is one step.  The peers, the intervals    *)
(* of the buffer and the outcome of each unicast are inputs of a tick.     *)
(***************************************************************************)
Peers == {"P1", "P2", "P3"}

\* what w.neighborsHandler() returns
PeerLists ==
    {<<>>, <<"P1">>, <<"P2", "P1">>, <<"P1", "P2", "P3">>,
     <<"P1", "P2", "P3", "P1">>}

\* syncBlocksInterval
Intervals ==
    {[Start |-> 1, End |-> 2], [Start |-> 3, End |-> 4],
     [Start |-> 5, End |-> 6]}

\* what w.buf.GetBlocksIntervalsToSync returns: a list of intervals
IntervalLists ==
    {l \in UNION {[1..n -> Intervals] : n \in 0..MaxIntervals} :
        \A i, j \in 1..Len(l) : i # j => l[i] # l[j]}

NoReq == [pos |-> -1, peers |-> <<>>]

\* newSyncWorker
WInit ==
    /\ targetHeight = 0
    /\ rrIdx = 0
    /\ wPassed = {}
    /\ wLast = [peers |-> <<>>, intervals |-> <<>>, reqs |-> <<>>]
    /\ lastReq = NoReq
    /\ wSets = 0
    /\ wTicks = 0

\* a SetTargetHeight that takes every height
TargetAfterAlways(h) == h

\* SetTargetHeight: "if h > w.targetHeight { w.targetHeight = h }"
TargetAfter(h) == IF h > targetHeight THEN h ELSE targetHeight

\* syncWorker.SetTargetHeight
SetTargetHeight(h) ==
    /\ targetHeight' = TargetAfter(h)
    /\ wPassed' = wPassed \cup {h}
    /\ wSets' = wSets + 1
    /\ UNCHANGED <<rrIdx, wLast, lastReq, wTicks>>
    /\ UNCHANGED <<dvars, bvars, evars, nvars, pvars, cvars>>

\* a Sync that asks the first peer every time
PickIndexFirst(idx, n) == 0

\* a Sync that uses w.rrIdx as it finds it
PickIndexAsIs(idx, n) == idx

IndexOutOfRange == "index out of range"

\* Sync: "p := peers[w.rrIdx]"; the runtime checks the index
PeerAt(peers, k) ==
    IF k >= 0 /\ k < Len(peers) THEN peers[k + 1] ELSE IndexOutOfRange

\* Sync: "w.rrIdx %= len(peers)"
PickIndex(idx, n) == idx % n

\* a Sync that gives up at the first unicast that fails
RECURSIVE SyncLoopStopOnError(_, _, _, _, _)
SyncLoopStopOnError(peers, intervals, fails, idx, i) ==
    IF i > Len(intervals) THEN [rrIdx |-> idx, reqs |-> <<>>]
    ELSE LET k == PickIndex(idx, Len(peers))
             req == [peer |-> PeerAt(peers, k), pos |-> k,
                     Start |-> intervals[i].Start, End |-> intervals[i].End,
                     err |-> i \in fails]
             rest == IF i \in fails THEN [rrIdx |-> k + 1, reqs |-> <<>>]
                     ELSE SyncLoopStopOnError(peers, intervals, fails,
                                              k + 1, i + 1)
         IN  [rrIdx |-> rest.rrIdx, reqs |-> <<req>> \o rest.reqs]

\* the loop of Sync from the i-th interval on, with w.rrIdx = idx: the
\* unicast requests it makes and w.rrIdx after it; the unicast for the
\* intervals of fails returns an error
RECURSIVE SyncLoop(_, _, _, _, _)
SyncLoop(peers, intervals, fails, idx, i) ==
    IF i > Len(intervals) THEN [rrIdx |-> idx, reqs |-> <<>>]
    ELSE LET k == PickIndex(idx, Len(peers))
             req == [peer |-> PeerAt(peers, k), pos |-> k,
                     Start |-> intervals[i].Start, End |-> intervals[i].End,
                     err |-> i \in fails]
             rest == SyncLoop(peers, intervals, fails, k + 1, i + 1)
         IN  [rrIdx |-> rest.rrIdx, reqs |-> <<req>> \o rest.reqs]

\* a Sync that starts again at the first peer when it finds no peer
SyncRewindOnNoPeer(peers, intervals, fails) ==
    /\ LET r == IF Len(peers) = 0 THEN [rrIdx |-> 0, reqs |-> <<>>]
                ELSE SyncLoop(peers, intervals, fails, rrIdx, 1)
       IN  /\ rrIdx' = r.rrIdx
           /\ wLast' = [peers |-> peers, intervals |-> intervals,
                        reqs |-> r.reqs]
    /\ lastReq' = IF wLast.reqs = <<>> THEN lastReq
                  ELSE [pos |-> wLast.reqs[Len(wLast.reqs)].pos,
                        peers |-> wLast.peers]
    /\ wTicks' = wTicks + 1
    /\ UNCHANGED <<targetHeight, wPassed, wSets>>
    /\ UNCHANGED <<dvars, bvars, evars, nvars, pvars, cvars>>

\* syncWorker.Sync
Sync(peers, intervals, fails) ==
    /\ LET r == IF Len(peers) = 0 THEN [rrIdx |-> rrIdx, reqs |-> <<>>]
                ELSE SyncLoop(peers, intervals, fails, rrIdx, 1)
       IN  /\ rrIdx' = r.rrIdx
           /\ wLast' = [peers |-> peers, intervals |-> intervals,
                        reqs |-> r.reqs]
    /\ lastReq' = IF wLast.reqs = <<>> THEN lastReq
                  ELSE [pos |-> wLast.reqs[Len(wLast.reqs)].pos,
                        peers |-> wLast.peers]
    /\ wTicks' = wTicks + 1
    /\ UNCHANGED <<targetHeight, wPassed, wSets>>
    /\ UNCHANGED <<dvars, bvars, evars, nvars, pvars, cvars>>

(***************************************************************************)
(* Cached batch, statement by statement: NumWriters goroutines call Put,   *)
(* Delete, PutIfNotExists and Snapshot on one cached batch.  Each call     *)
(* takes cb.lock first and releases it last (the deferred Unlock).         *)
(***************************************************************************)
Writers == 1..NumWriters

SnapshotCall == writeInfo("Snapshot", Nil, Nil, Nil)

\* the calls the goroutines make
ConcurrentCalls ==
    {writeInfo(Put, ns, k, v) : ns \in Namespaces, k \in Keys, v \in Values}
    \cup {writeInfo(PutIfNotExists, ns, k, v) :
             ns \in Namespaces, k \in Keys, v \in Values}
    \cup {writeInfo(Delete, ns, k, Nil) : ns \in Namespaces, k \in Keys}
    \cup {SnapshotCall}

Caller(pc, call, err) == [pc |-> pc, call |-> call, err |-> err]

CInit ==
    callers = [c \in Writers |-> Caller("idle", writeInfo(None, Nil, Nil, Nil),
                                        Nil)]

\* a cb.lock.Lock() that does not wait
LockFreeAlways == TRUE

\* cb.lock.Lock() returns when no goroutine holds the lock
LockFree == ~cbLock

\* "cb.lock.Lock()" of Put, PutIfNotExists, Delete and Snapshot
CallLock(c, call) ==
    /\ callers[c].pc = "idle"
    /\ LockFree
    /\ cbLock' = TRUE
    /\ callers' = [callers EXCEPT ![c] = Caller("locked", call, Nil)]
    /\ bOps' = bOps + 1
    /\ UNCHANGED <<writeQueue, KVStoreCache, cacheRef, tag, batchShots,
                   cacheShots, taken, bLast, nSnap, discarded>>
    /\ UNCHANGED <<dvars, evars, wvars, nvars, pvars>>

\* "cb.Write(h, value)" of Put, "cb.WriteIfNotExist(h, value)" of
\* PutIfNotExists with its return on an error, "cb.Evict(h)" of Delete
CallCache(c) ==
    /\ callers[c].pc = "locked"
    /\ callers[c].call # SnapshotCall
    /\ LET w == callers[c].call
           h == hash(w.namespace, w.key)
           r == CASE w.writeType = Put
                       -> [cache |-> CacheWrite(KVStoreCache, h, w.value),
                           err |-> Nil]
                  [] w.writeType = PutIfNotExists
                       -> CacheWriteIfNotExist(KVStoreCache, h, w.value)
                  [] OTHER
                       -> [cache |-> CacheEvict(KVStoreCache, h), err |-> Nil]
       IN  /\ WriteThrough(r.cache)
           /\ callers' = [callers EXCEPT ![c] =
                             Caller(IF r.err # Nil THEN "unlock" ELSE "cached",
                                    w, r.err)]
    /\ UNCHANGED <<cbLock, writeQueue, cacheRef, tag, batchShots, taken, bLast,
                   bOps, nSnap, discarded>>
    /\ UNCHANGED <<dvars, evars, wvars, nvars, pvars>>

\* "cb.batch(op, namespace, key, value, ...)" of Put, PutIfNotExists, Delete
CallBatch(c) ==
    /\ callers[c].pc = "cached"
    /\ LET w == callers[c].call
       IN  writeQueue' = batch(writeQueue, w.writeType, w.namespace, w.key,
                               w.value)
    /\ callers' = [callers EXCEPT ![c].pc = "unlock"]
    /\ UNCHANGED <<cbLock, KVStoreCache, cacheRef, tag, batchShots, cacheShots,
                   taken, bLast, bOps, nSnap, discarded>>
    /\ UNCHANGED <<dvars, evars, wvars, nvars, pvars>>

\* Snapshot: "cb.batchShots = append(cb.batchShots, cb.Size())"
CallSize(c) ==
    /\ callers[c].pc = "locked"
    /\ callers[c].call = SnapshotCall
    /\ batchShots' = Append(batchShots, Size)
    /\ callers' = [callers EXCEPT ![c].pc = "sized"]
    /\ UNCHANGED <<cbLock, writeQueue, KVStoreCache, cacheRef, tag, cacheShots,
                   taken, bLast, bOps, nSnap, discarded>>
    /\ UNCHANGED <<dvars, evars, wvars, nvars, pvars>>

\* Snapshot: "cb.cacheShots = append(cb.cacheShots, cb.KVStoreCache.Clone())"
CallClone(c) ==
    /\ callers[c].pc = "sized"
    /\ cacheShots' = Append(cacheShots, CacheClone(KVStoreCache))
    /\ callers' = [callers EXCEPT ![c].pc = "cloned"]
    /\ UNCHANGED <<cbLock, writeQueue, KVStoreCache, cacheRef, tag, batchShots,
                   taken, bLast, bOps, nSnap, discarded>>
    /\ UNCHANGED <<dvars, evars, wvars, nvars, pvars>>

\* Snapshot: "return cb.tag" and the deferred "cb.tag++"
CallTag(c) ==
    /\ callers[c].pc = "cloned"
    /\ tag' = tag + 1
    /\ taken' = Append(taken, [queue |-> writeQueue, cache |-> KVStoreCache])
    /\ nSnap' = nSnap + 1
    /\ callers' = [callers EXCEPT ![c].pc = "unlock"]
    /\ UNCHANGED <<cbLock, writeQueue, KVStoreCache, cacheRef, batchShots,
                   cacheShots, bLast, bOps, discarded>>
    /\ UNCHANGED <<dvars, evars, wvars, nvars, pvars>>

\* the deferred "cb.lock.Unlock()": the call returns
CallUnlock(c) ==
    /\ callers[c].pc = "unlock"
    /\ cbLock' = FALSE
    /\ bLast' = IF callers[c].call = SnapshotCall
                THEN BatchOp("Snapshot", tag - 1, Nil, Nil)
                ELSE BatchOp(callers[c].call.writeType, 0, callers[c].call,
                             callers[c].err)
    /\ callers' = [callers EXCEPT ![c].pc = "idle"]
    /\ UNCHANGED <<writeQueue, KVStoreCache, cacheRef, tag, batchShots,
                   cacheShots, taken, bOps, nSnap, discarded>>
    /\ UNCHANGED <<dvars, evars, wvars, nvars, pvars>>

(***************************************************************************)
(* Sub-chain protocol (mainchain.Protocol, in dispatcher/dispatcher.go     *)
(* from line 342 on): handleStopSubChain on a state manager.               *)
(***************************************************************************)
SubChainsInOperationKey == "subChainsInOperation"

\* the addresses a StopSubChain action names: two registered sub-chains
\* and an address that is no sub-chain
ChainAddresses == {"sc1", "sc2", "sc9"}

\* the senders: the owners of the two sub-chains, and a sender without an
\* account
SrcAddrs == {"O1", "O2", "Y"}

\* &SubChain{ChainID, OwnerPublicKey, StopHeight}
SubChain(id, owner, stopHeight) ==
    [ChainID |-> id, OwnerPublicKey |-> owner, StopHeight |-> stopHeight]

\* &state.Account{Nonce}
Account(nonce) == [Nonce |-> nonce]

\* the StopSubChain actions handleStopSubChain is called with
StopActions ==
    [StopHeight : 1..MaxStopHeight, ChainAddress : ChainAddresses,
     SrcAddr : SrcAddrs, Nonce : 1..MaxNonce]

\* the PutState and StoreAccount calls of handleStopSubChain
PutCalls == {"subChain", "account", "inOperation"}

ErrStopHeight == "stop height should not be lower than chain height"
ErrProcessingAddress == "error when processing address"
ErrGettingAccount == "error when getting the account of sender"
ErrNotOwner == "sender is not the owner of sub-chain"
ErrNotInOperation == "address is not on a sub-chain in operation"
ErrPutState == "PutState failed"

\* the state manager before the first call: sub-chain sc1 of owner O1 is in
\* operation, sub-chain sc2 of owner O2 is registered and not in operation
PInit ==
    /\ smStates = [k \in {"sc1", "sc2", "O1", "O2", SubChainsInOperationKey}
                      |-> CASE k = "sc1" -> SubChain(2, "O1", 0)
                            [] k = "sc2" -> SubChain(3, "O2", 0)
                            [] k = SubChainsInOperationKey -> <<2>>
                            [] OTHER -> Account(0)]
    /\ stopLast = [stop |-> [StopHeight |-> 0, ChainAddress |-> None,
                             SrcAddr |-> None, Nonce |-> 0],
                   height |-> 0, err |-> Nil, puts |-> <<>>]
    /\ stopCalls = 0

\* Protocol.subChainToStop: the sub-chain of the address, or an error
subChainToStop(st, subChainAddr) ==
    IF subChainAddr \in DOMAIN st /\ subChainAddr \in ChainAddresses
    THEN [subChain |-> st[subChainAddr], err |-> Nil]
    ELSE [subChain |-> Nil, err |-> ErrProcessingAddress]

\* Protocol.validateSubChainOwnership: the account of the sender, and an
\* error if there is none or the sender is not the owner
validateSubChainOwnership(ownerPKHash, sender, st) ==
    IF sender \notin DOMAIN st THEN [account |-> Nil, err |-> ErrGettingAccount]
    ELSE IF ownerPKHash # sender
           THEN [account |-> st[sender], err |-> ErrNotOwner]
    ELSE [account |-> st[sender], err |-> Nil]

\* account.SetNonce: the nonce of the account is raised to the action's
SetNonce(stop, acct) ==
    IF stop.Nonce > acct.Nonce THEN [acct EXCEPT !.Nonce = stop.Nonce]
    ELSE acct

\* SubChainsInOperation.Delete: the list without the chain id, and whether
\* the id was in it
SubChainsDelete(subChainsInOp, id) ==
    [list |-> SelectSeq(subChainsInOp, LAMBDA x : x # id),
     deleted |-> \E i \in 1..Len(subChainsInOp) : subChainsInOp[i] = id]

\* the result of a handleStopSubChain call
StopResult(st, err, puts) == [st |-> st, err |-> err, puts |-> puts]

\* the body of Protocol.handleStopSubChain with sm.Height() = height: the
\* states of sm after the call, the error returned and the keys written;
\* the writes named in fails return an error
handleStop(stop, height, fails) ==
    IF stop.StopHeight <= height THEN StopResult(smStates, ErrStopHeight, <<>>)
    ELSE
    LET sc == subChainToStop(smStates, stop.ChainAddress) IN
    IF sc.err # Nil THEN StopResult(smStates, sc.err, <<>>)
    ELSE
    LET subChain == [sc.subChain EXCEPT !.StopHeight = stop.StopHeight] IN
    IF "subChain" \in fails THEN StopResult(smStates, ErrPutState, <<>>)
    ELSE
    LET st1 == [smStates EXCEPT ![stop.ChainAddress] = subChain]
        puts1 == <<stop.ChainAddress>>
        v == validateSubChainOwnership(subChain.OwnerPublicKey, stop.SrcAddr,
                                       st1)
    IN
    IF v.err # Nil THEN StopResult(st1, v.err, puts1)
    ELSE IF "account" \in fails THEN StopResult(st1, ErrPutState, puts1)
    ELSE
    LET st2 == [st1 EXCEPT ![stop.SrcAddr] = SetNonce(stop, v.account)]
        puts2 == Append(puts1, stop.SrcAddr)
        d == SubChainsDelete(st2[SubChainsInOperationKey], subChain.ChainID)
    IN
    IF ~d.deleted THEN StopResult(st2, ErrNotInOperation, puts2)
    ELSE IF "inOperation" \in fails THEN StopResult(st2, ErrPutState, puts2)
    ELSE StopResult([st2 EXCEPT ![SubChainsInOperationKey] = d.list], Nil,
                    Append(puts2, SubChainsInOperationKey))

\* Protocol.handleStopSubChain
handleStopSubChain(stop, height, fails) ==
    /\ LET r == handleStop(stop, height, fails)
       IN  /\ smStates' = r.st
           /\ stopLast' = [stop |-> stop, height |-> height, err |-> r.err,
                           puts |-> r.puts]
    /\ stopCalls' = stopCalls + 1
    /\ UNCHANGED <<dvars, bvars, evars, wvars, nvars, cvars>>

(***************************************************************************)
(* Base batch (db/batch.go): the KVStoreBatch that NewBatch returns, a     *)
(* write queue without a cache.                                            *)
(***************************************************************************)
BaseOp(op, write, err) == [op |-> op, write |-> write, err |-> err]

\* NewBatch
NInit ==
    /\ baseMutex = FALSE
    /\ baseWriteQueue = <<>>
    /\ nLast = BaseOp(None, writeInfo(None, Nil, Nil, Nil), Nil)
    /\ nOps = 0

\* baseKVStoreBatch.Lock
BaseLock ==
    /\ ~baseMutex
    /\ baseMutex' = TRUE
    /\ nLast' = BaseOp("Lock", writeInfo(None, Nil, Nil, Nil), Nil)
    /\ nOps' = nOps + 1
    /\ UNCHANGED baseWriteQueue
    /\ UNCHANGED <<dvars, bvars, evars, wvars, pvars, cvars>>

\* baseKVStoreBatch.Unlock
BaseUnlock ==
    /\ baseMutex
    /\ baseMutex' = FALSE
    /\ nLast' = BaseOp("Unlock", writeInfo(None, Nil, Nil, Nil), Nil)
    /\ nOps' = nOps + 1
    /\ UNCHANGED baseWriteQueue
    /\ UNCHANGED <<dvars, bvars, evars, wvars, pvars, cvars>>

\* baseKVStoreBatch.ClearAndUnlock: the caller holds b.mutex
BaseClearAndUnlock ==
    /\ baseMutex
    /\ baseWriteQueue' = <<>>
    /\ baseMutex' = FALSE
    /\ nLast' = BaseOp("ClearAndUnlock", writeInfo(None, Nil, Nil, Nil), Nil)
    /\ nOps' = nOps + 1
    /\ UNCHANGED <<dvars, bvars, evars, wvars, pvars, cvars>>

\* baseKVStoreBatch.Put
BasePut(namespace, key, value) ==
    /\ ~baseMutex
    /\ baseWriteQueue' = batch(baseWriteQueue, Put, namespace, key, value)
    /\ nLast' = BaseOp("Put", writeInfo(Put, namespace, key, value), Nil)
    /\ nOps' = nOps + 1
    /\ UNCHANGED baseMutex
    /\ UNCHANGED <<dvars, bvars, evars, wvars, pvars, cvars>>

\* baseKVStoreBatch.PutIfNotExists
BasePutIfNotExists(namespace, key, value) ==
    /\ ~baseMutex
    /\ baseWriteQueue' =
          batch(baseWriteQueue, PutIfNotExists, namespace, key, value)
    /\ nLast' = BaseOp("PutIfNotExists",
                       writeInfo(PutIfNotExists, namespace, key, value), Nil)
    /\ nOps' = nOps + 1
    /\ UNCHANGED baseMutex
    /\ UNCHANGED <<dvars, bvars, evars, wvars, pvars, cvars>>

\* baseKVStoreBatch.Delete
BaseDelete(namespace, key) ==
    /\ ~baseMutex
    /\ baseWriteQueue' = batch(baseWriteQueue, Delete, namespace, key, Nil)
    /\ nLast' = BaseOp("Delete", writeInfo(Delete, namespace, key, Nil), Nil)
    /\ nOps' = nOps + 1
    /\ UNCHANGED baseMutex
    /\ UNCHANGED <<dvars, bvars, evars, wvars, pvars, cvars>>

\* baseKVStoreBatch.Clear
BaseClear ==
    /\ ~baseMutex
    /\ baseWriteQueue' = <<>>
    /\ nLast' = BaseOp("Clear", writeInfo(None, Nil, Nil, Nil), Nil)
    /\ nOps' = nOps + 1
    /\ UNCHANGED baseMutex
    /\ UNCHANGED <<dvars, bvars, evars, wvars, pvars, cvars>>

(***************************************************************************)
(* The state after construction of the five components.                    *)
(***************************************************************************)
Init == DInit /\ BInit /\ EInit /\ WInit /\ NInit /\ PInit /\ CInit

(***************************************************************************)
(* Dispatcher: specifications. The operations above are the code; a         *)
(* specification bounds how often the outer node calls them and what it     *)
(* passes. All start from NewDispatcher.                                    *)
(***************************************************************************)
Msg(msgType, sender, body) ==
    [msgType |-> msgType, sender |-> sender, body |-> body]

\* RoutingSpec: every message type, body and sender, on either chain, with
\* subscribers added (and replaced) while messages arrive; one Start, no Stop.
RoutingBroadcastInputs ==
    {Msg(mt, None, b) : mt \in {MsgConsensusType, MsgActionType,
                                MsgBlockProtoMsgType}, b \in Bodies}
    \cup {Msg(mt, None, "b1") : mt \in {MsgUnknownType, MsgBlockSyncReqType}}

RoutingTellInputs ==
    {Msg(MsgBlockSyncReqType, n, b) : n \in Senders, b \in Bodies}
    \cup {Msg(MsgBlockSyncDataType, "n1", b) : b \in Bodies}
    \cup {Msg(mt, "n1", "b1") : mt \in {MsgUnknownType, MsgActionType}}

RoutingNext ==
    \/ /\ nAdd < RoutingMaxAdd
       /\ \E c \in ChainIDs, s \in Subscribers : AddSubscriberLock(c, s)
    \/ AddSubscriberWrite
    \/ /\ Len(calls) < RoutingMaxSubmit
       /\ \E c \in ChainIDs, m \in RoutingBroadcastInputs :
             HandleBroadcast(c, m.msgType, m.body)
    \/ /\ Len(calls) < RoutingMaxSubmit
       /\ \E c \in ChainIDs, m \in RoutingTellInputs :
             HandleTell(c, m.sender, m.msgType, m.body)
    \/ \E k \in inConsensus, err \in BOOLEAN : ConsensusReturn(k, err)
    \/ \E g \in goroutines : GoCheck(g)
    \/ \E g \in goroutines : GoSend(g)
    \/ \E i \in 1..Len(consumers) : Receive(i)
    \/ \E i \in 1..Len(consumers) : RLockBlock(i)
    \/ \E i \in 1..Len(consumers), err \in BOOLEAN : HandlerReturn(i, err)
    \/ started = 0 /\ StartCall
    \/ StartWgAdd
    \/ StartSpawn

RoutingSpec == Init /\ [][RoutingNext]_vars

\* QueueSpec: one subscriber, registered once per chain, one Start and no
\* Stop; the outer node submits the same action or block message again and
\* again.
QueueNext ==
    \/ \E c \in ChainIDs :
          subscribers[c] = None /\ AddSubscriberLock(c, "s1")
    \/ AddSubscriberWrite
    \/ /\ Len(calls) < QueueMaxSubmit
       /\ \E c \in ChainIDs, mt \in {MsgActionType, MsgBlockProtoMsgType} :
             HandleBroadcast(c, mt, "b1")
    \/ \E g \in goroutines : GoCheck(g)
    \/ \E g \in goroutines : GoSend(g)
    \/ \E i \in 1..Len(consumers) : Receive(i)
    \/ \E i \in 1..Len(consumers) : RLockBlock(i)
    \/ \E i \in 1..Len(consumers), err \in BOOLEAN : HandlerReturn(i, err)
    \/ started = 0 /\ StartCall
    \/ StartWgAdd
    \/ StartSpawn

QueueSpec == Init /\ [][QueueNext]_vars

\* LifecycleSpec: one subscriber, on chain 1; Start and Stop are called,
\* more than once, while consensus, action and block messages arrive.
LifecycleNext ==
    \/ nAdd = 0 /\ AddSubscriberLock(1, "s1")
    \/ AddSubscriberWrite
    \/ /\ Len(calls) < LifecycleMaxSubmit
       /\ \E mt \in {MsgConsensusType, MsgActionType, MsgBlockProtoMsgType} :
             HandleBroadcast(1, mt, "b1")
    \/ \E k \in inConsensus, err \in BOOLEAN : ConsensusReturn(k, err)
    \/ \E g \in goroutines : GoCheck(g)
    \/ \E g \in goroutines : GoSend(g)
    \/ \E i \in 1..Len(consumers) : Receive(i)
    \/ \E i \in 1..Len(consumers) : RLockBlock(i)
    \/ \E i \in 1..Len(consumers), err \in BOOLEAN : HandlerReturn(i, err)
    \/ \E i \in 1..Len(consumers) : ConsumerQuit(i)
    \/ started < MaxStart /\ StartCall
    \/ StartWgAdd
    \/ StartSpawn
    \/ shutdown < MaxStop /\ StopCall
    \/ StopClose
    \/ StopWait

LifecycleSpec == Init /\ [][LifecycleNext]_vars

\* AfterStopSpec: one subscriber, on chain 1; Start and Stop are called
\* once each while action, block and block-sync messages arrive.
AfterStopNext ==
    \/ nAdd = 0 /\ AddSubscriberLock(1, "s1")
    \/ AddSubscriberWrite
    \/ /\ Len(calls) < AfterStopMaxSubmit
       /\ \E mt \in {MsgActionType, MsgBlockProtoMsgType} :
             HandleBroadcast(1, mt, "b1")
    \/ /\ Len(calls) < AfterStopMaxSubmit
       /\ \E mt \in {MsgBlockSyncReqType, MsgBlockSyncDataType} :
             HandleTell(1, "n1", mt, "b1")
    \/ \E g \in goroutines : GoCheck(g)
    \/ \E g \in goroutines : GoSend(g)
    \/ \E i \in 1..Len(consumers) : Receive(i)
    \/ \E i \in 1..Len(consumers) : RLockBlock(i)
    \/ \E i \in 1..Len(consumers), err \in BOOLEAN : HandlerReturn(i, err)
    \/ \E i \in 1..Len(consumers) : ConsumerQuit(i)
    \/ started = 0 /\ StartCall
    \/ StartWgAdd
    \/ StartSpawn
    \/ shutdown = 0 /\ StopCall
    \/ StopClose
    \/ StopWait

AfterStopSpec == Init /\ [][AfterStopNext]_vars

\* What the Go scheduler and the proviso "every subscriber call returns" give:
\* a goroutine that can take its next step takes it, a handler that was
\* called returns.  Nothing makes the outer node call the dispatcher, and the
\* select of newsHandler owes nothing to the event case when quit is ready
\* too.
LifecycleFairness ==
    /\ WF_vars(AddSubscriberWrite)
    /\ WF_vars(\E k \in inConsensus, err \in BOOLEAN : ConsensusReturn(k, err))
    /\ WF_vars(\E g \in goroutines : GoCheck(g))
    /\ WF_vars(\E g \in goroutines : GoSend(g))
    /\ WF_vars(\E i \in 1..Len(consumers) : RLockBlock(i))
    /\ WF_vars(\E i \in 1..Len(consumers), err \in BOOLEAN :
                  HandlerReturn(i, err))
    /\ WF_vars(\E i \in 1..Len(consumers) : ConsumerQuit(i))
    /\ WF_vars(StartWgAdd)
    /\ WF_vars(StartSpawn)
    /\ WF_vars(StopClose)
    /\ WF_vars(StopWait)

LifecycleFairSpec == LifecycleSpec /\ LifecycleFairness

(***************************************************************************)
(* Cached batch: specification.  One caller (the batch is not shared       *)
(* across transactions) makes up to MaxBatchOps operations on a new cached *)
(* batch, Revert with valid and invalid tokens.                            *)
(***************************************************************************)
BatchNext ==
    \/ bOps < MaxBatchOps /\ BatchLock
    \/ bOps < MaxBatchOps /\ BatchUnlock
    \/ bOps < MaxBatchOps /\ BatchClearAndUnlock
    \/ bOps < MaxBatchOps /\ BatchClear
    \/ /\ bOps < MaxBatchOps
       /\ \E ns \in Namespaces, k \in Keys, v \in Values : BatchPut(ns, k, v)
    \/ /\ bOps < MaxBatchOps
       /\ \E ns \in Namespaces, k \in Keys, v \in Values :
             BatchPutIfNotExists(ns, k, v)
    \/ /\ bOps < MaxBatchOps
       /\ \E ns \in Namespaces, k \in Keys : BatchDelete(ns, k)
    \/ /\ bOps < MaxBatchOps
       /\ \E ns \in Namespaces, k \in Keys : BatchGet(ns, k)
    \/ bOps < MaxBatchOps /\ BatchSnapshot
    \/ /\ bOps < MaxBatchOps
       /\ \E t \in -1..tag : BatchRevert(t)
    \/ /\ bOps < MaxBatchOps
       /\ \E ok \in BOOLEAN : Commit(ok)

BatchSpec == Init /\ [][BatchNext]_vars

(***************************************************************************)
(* ConcurrentSpec: NumWriters goroutines make up to MaxConcurrentOps calls *)
(* of Put, PutIfNotExists, Delete and Snapshot on a new cached batch; the  *)
(* statements of the calls interleave as the lock allows.                  *)
(***************************************************************************)
ConcurrentNext ==
    \/ \E c \in Writers, call \in ConcurrentCalls :
          bOps < MaxConcurrentOps /\ CallLock(c, call)
    \/ \E c \in Writers : CallCache(c)
    \/ \E c \in Writers : CallBatch(c)
    \/ \E c \in Writers : CallSize(c)
    \/ \E c \in Writers : CallClone(c)
    \/ \E c \in Writers : CallTag(c)
    \/ \E c \in Writers : CallUnlock(c)

ConcurrentSpec == Init /\ [][ConcurrentNext]_vars

(***************************************************************************)
(* Endorsement set: specification.  Up to MaxEndorseCalls calls of         *)
(* AddEndorsement on the set NewSet returned.                              *)
(***************************************************************************)
EndorsementNext ==
    \E en \in Endorsements : eCalls < MaxEndorseCalls /\ AddEndorsement(en)

EndorsementSpec == Init /\ [][EndorsementNext]_vars

(***************************************************************************)
(* CountSpec: AddEndorsement calls and NumOfValidEndorsements calls.       *)
(***************************************************************************)
CountNext ==
    \/ \E en \in Endorsements : eCalls < MaxCountAdds /\ AddEndorsement(en)
    \/ \E topics \in SUBSET Topics, endorsers \in EndorserLists :
          NumOfValidEndorsementsCall(topics, endorsers)

CountSpec == Init /\ [][CountNext]_vars

(***************************************************************************)
(* ProtoSpec: AddEndorsement and SetRound calls, and the conversion of the *)
(* set to protobuf and back into a second set.                             *)
(***************************************************************************)
ProtoNext ==
    \/ \E en \in Endorsements : eCalls < MaxProtoAdds /\ AddEndorsement(en)
    \/ \E r \in Rounds : SetRound(r)
    \/ FromProtoOfToProto

ProtoSpec == Init /\ [][ProtoNext]_vars

(***************************************************************************)
(* SetSpec: AddEndorsement, SetRound and FromProto calls on one set.       *)
(***************************************************************************)
SetNext ==
    \/ \E en \in Endorsements : eCalls < MaxSetAdds /\ AddEndorsement(en)
    \/ \E r \in Rounds : SetRound(r)
    \/ \E sPb \in SetPbs : FromProtoCall(sPb)

SetSpec == Init /\ [][SetNext]_vars

(***************************************************************************)
(* StopSpec: handleStopSubChain calls on one state manager.                *)
(***************************************************************************)
StopNext ==
    \E stop \in StopActions, height \in 0..MaxChainHeight :
       \E fails \in SUBSET PutCalls :
          stopCalls < MaxStopCalls /\ handleStopSubChain(stop, height, fails)

StopSpec == Init /\ [][StopNext]_vars

(***************************************************************************)
(* Base batch: specification.  One caller makes up to MaxBaseOps           *)
(* operations on the batch NewBatch returned.                              *)
(***************************************************************************)
BaseBatchNext ==
    \/ nOps < MaxBaseOps /\ BaseLock
    \/ nOps < MaxBaseOps /\ BaseUnlock
    \/ nOps < MaxBaseOps /\ BaseClearAndUnlock
    \/ nOps < MaxBaseOps /\ BaseClear
    \/ /\ nOps < MaxBaseOps
       /\ \E ns \in Namespaces, k \in Keys, v \in Values : BasePut(ns, k, v)
    \/ /\ nOps < MaxBaseOps
       /\ \E ns \in Namespaces, k \in Keys, v \in Values :
             BasePutIfNotExists(ns, k, v)
    \/ /\ nOps < MaxBaseOps
       /\ \E ns \in Namespaces, k \in Keys : BaseDelete(ns, k)

BaseBatchSpec == Init /\ [][BaseBatchNext]_vars

(***************************************************************************)
(* Sync worker: specifications.  The block sync driver calls               *)
(* SetTargetHeight, the recurring task calls Sync.  TargetSpec follows the *)
(* target height, SyncSpec the unicast requests of the ticks.              *)
(***************************************************************************)
TargetNext ==
    \/ \E h \in 0..MaxHeight : wSets < MaxSetTarget /\ SetTargetHeight(h)
    \/ \E peers \in PeerLists, intervals \in IntervalLists :
          \E fails \in SUBSET (1..Len(intervals)) :
             wTicks < MaxTargetTicks /\ Sync(peers, intervals, fails)

TargetSpec == Init /\ [][TargetNext]_vars

SyncNext ==
    \/ \E h \in 0..MaxHeight : wSets < MaxSyncSets /\ SetTargetHeight(h)
    \/ \E peers \in PeerLists, intervals \in IntervalLists :
          \E fails \in SUBSET (1..Len(intervals)) :
             wTicks < MaxTicks /\ Sync(peers, intervals, fails)

SyncSpec == Init /\ [][SyncNext]_vars


(***************************************************************************)
(* Dispatcher: properties                                                  *)
(***************************************************************************)
QueuedMethods ==
    {"HandleAction", "HandleBlock", "HandleBlockSync", "HandleSyncRequest"}

\* the places in log of the handler invocations made for call / event id
LogOf(id) == {k \in 1..Len(log) : log[k].id = id}

\* the consumers inside a subscriber handler
Handling == {i \in 1..Len(consumers) : consumers[i].pc = "handling"}

\* the ids of the events that are, or have been, on their way to eventChan
QueuedIds ==
    {g.ev.id : g \in goroutines}
    \cup {eventChan[k].id : k \in 1..Len(eventChan)}
    \cup {sendq[k].id : k \in 1..Len(sendq)}
    \cup {enq[k] : k \in 1..Len(enq)}
    \cup dropped

\* C1 (as claimed): ids are given in call order and calls do not overlap, so
\* of two events of one chain that both reach a handler, the one submitted
\* first reaches its handler first.
C1_SubmissionOrderDelivered ==
    \A i, j \in 1..Len(log) :
        ( /\ log[i].method \in QueuedMethods
          /\ log[j].method \in QueuedMethods
          /\ log[i].chainID = log[j].chainID
          /\ log[i].id < log[j].id ) => i < j

\* C5 (as claimed): eventChan never holds more than EventChanSize events and
\* no enqueue attempt is parked on the full channel.
C5_EnqueueNeverWaits ==
    /\ Len(eventChan) <= EventChanSize
    /\ sendq = <<>>

\* C6: a HandleBroadcast of a Consensus message for a chain with a subscriber
\* has exactly one handler invocation, a HandleConsensusMsg with the call's
\* chain and body, made by the time the call returns, and puts nothing on the
\* way to eventChan.
C6_ConsensusSynchronous ==
    \A id \in 1..Len(calls) :
        ( /\ calls[id].kind = "broadcast"
          /\ calls[id].msgType = MsgConsensusType
          /\ calls[id].registered )
        => /\ Cardinality(LogOf(id)) = 1
           /\ \A k \in LogOf(id) :
                 /\ log[k].method = "HandleConsensusMsg"
                 /\ log[k].chainID = calls[id].chainID
                 /\ log[k].body = calls[id].body
                 /\ calls[id].returned <=> k \notin inConsensus
           /\ id \notin QueuedIds

\* C6 witness: the third call, a Consensus message, has returned with its
\* handler called, while eventChan is full and no consumer was ever started
C6_Witness ==
    /\ Len(calls) = 3
    /\ calls[3].msgType = MsgConsensusType /\ calls[3].returned
    /\ LogOf(3) # {}
    /\ Len(eventChan) = EventChanSize
    /\ consumers = <<>>

\* C7: every event placed in eventChan is received exactly once, in the order
\* of placement; every received event (whose chain has a subscriber, as all
\* events of QueueSpec have) has exactly one handler invocation once its
\* dispatch is past the lookup; no consumer leaves its loop, whatever the
\* handlers return.
C7_ExactlyOnce ==
    /\ \A a, b \in 1..Len(enq) : enq[a] = enq[b] => a = b
    /\ Len(consumed) <= Len(enq)
    /\ consumed = SubSeq(enq, 1, Len(consumed))
    /\ [k \in 1..Len(eventChan) |-> eventChan[k].id]
          = SubSeq(enq, Len(consumed) + 1, Len(enq))
    /\ ~crashed =>
          \A k \in 1..Len(consumed) :
              LET waiting == \E i \in 1..Len(consumers) :
                                /\ consumers[i].pc = "rlock"
                                /\ consumers[i].ev.id = consumed[k]
              IN  Cardinality(LogOf(consumed[k])) = IF waiting THEN 0 ELSE 1
    /\ \A i \in 1..Len(consumers) : consumers[i].pc # "exited"

\* C7 witness: the same action message was submitted three times and its
\* handler called three times, the third call after a handler returned an
\* error
C7_Witness ==
    /\ Len(log) = 3
    /\ \A k \in 1..3 : log[k].method = "HandleAction" /\ log[k].chainID = 1
    /\ Len(consumers) = 1
    /\ consumers[1].pc = "handling" /\ consumers[1].err

ExpectedMethod(c) ==
    CASE c.kind = "broadcast" /\ c.msgType = MsgActionType -> "HandleAction"
      [] c.kind = "broadcast" /\ c.msgType = MsgBlockProtoMsgType -> "HandleBlock"
      [] c.kind = "tell" /\ c.msgType = MsgBlockSyncDataType -> "HandleBlockSync"
      [] c.kind = "tell" /\ c.msgType = MsgBlockSyncReqType -> "HandleSyncRequest"
      [] OTHER -> None

\* the subscribers registered under chainID in this state; while an
\* AddSubscriber call is writing, the one it writes is among them
RegisteredNow(chainID) ==
    ({subscribers[chainID]}
     \cup (IF subscribersMU.writer THEN {WrittenMap[chainID]} ELSE {}))
    \ {None}

C8_Step ==
    /\ Len(log') <= Len(log) + 1
    /\ SubSeq(log', 1, Len(log)) = log
    /\ (Len(log') = Len(log) + 1
        /\ log'[Len(log')].method # "HandleConsensusMsg")
       => LET e == log'[Len(log')]
              c == calls[e.id]
          IN  /\ e.method # None
              /\ e.method = ExpectedMethod(c)
              /\ e.chainID = c.chainID
              /\ e.body = c.body
              /\ e.method = "HandleSyncRequest" => e.sender = c.sender
              /\ e.sub \in RegisteredNow(e.chainID)
              /\ LogOf(e.id) = {}

\* C8: every step that calls a handler for a queued event calls one handler,
\* the one of the event's kind, with the chain, body (and, for a sync
\* request, sender) of the call that submitted the event, on a subscriber
\* registered under the event's chain at that moment (so on none when none is
\* registered), and no handler was called for that event before.
C8_Routing == [][C8_Step]_vars

\* C8 witness: a synced block reached HandleBlockSync on one subscriber and a
\* sync request from n2 reached HandleSyncRequest on another
C8_Witness ==
    /\ Len(log) = 2
    /\ log[1].method = "HandleBlockSync"
    /\ log[2].method = "HandleSyncRequest" /\ log[2].sender = "n2"
    /\ log[1].sub # log[2].sub

\* C9 (as claimed): on each subscriber at most one handler invocation,
\* HandleConsensusMsg included, is in progress.
C9_NonReentrant ==
    \A s \in Subscribers :
        Cardinality({k \in inConsensus : log[k].sub = s})
        + Cardinality({i \in Handling : log[consumers[i].inv].sub = s}) <= 1

\* C9 (amended): at most one invocation of HandleAction, HandleBlock,
\* HandleBlockSync or HandleSyncRequest is in progress at any time.
C9_QueuedHandlersSerial == Cardinality(Handling) <= 1

\* C9 witness: the consumer is inside a queued event's handler while a caller
\* is inside HandleConsensusMsg on the same subscriber
C9_Witness ==
    \E i \in Handling, k \in inConsensus : log[consumers[i].inv].sub = log[k].sub

\* C10 (as claimed): once d.quit is closed no event is received from
\* eventChan.
C10_NoReceiveAfterQuit == [][quit => consumed' = consumed]_vars

(***************************************************************************)
(* Cached batch: properties                                                *)
(***************************************************************************)
\* what Get returns for every namespace and key, the cache being c
View(c) ==
    [ns \in Namespaces, k \in Keys |-> CacheRead(c, hash(ns, k))]

\* C2 (as claimed): when Revert(t) has returned without error, the write
\* queue and the result of Get for every key are what they were when the
\* Snapshot call that returned t returned.
C2_RevertRestoresSnapshot ==
    (bLast.op = "Revert" /\ bLast.err = Nil)
    => /\ writeQueue = taken[bLast.snapshot + 1].queue
       /\ View(KVStoreCache) = View(taken[bLast.snapshot + 1].cache)

(***************************************************************************)
(* Endorsement set: properties                                             *)
(***************************************************************************)
Slots == Endorsers \X Topics

\* the rounds of the endorsements of a slot in a collection of endorsements
RoundsOf(ens, slot) ==
    {en.round : en \in {x \in ens : x.endorser = slot[1] /\ x.topic = slot[2]}}

Retained == {endorsements[i] : i \in 1..Len(endorsements)}

Max(S) == CHOOSE x \in S : \A y \in S : y <= x

\* C3: s.endorsements holds at most one endorsement of an endorser for a
\* topic.
C3_OnePerEndorserTopic ==
    \A i, j \in 1..Len(endorsements) :
        ( /\ endorsements[i].endorser = endorsements[j].endorser
          /\ endorsements[i].topic = endorsements[j].topic ) => i = j

\* C3 witness: two endorsers are retained, one of them after its endorsement
\* was replaced by one of a later round, and the last call was rejected as
\* expired
C3_Witness ==
    /\ Len(endorsements) = 2
    /\ endorsements[1].endorser # endorsements[2].endorser
    /\ \E slot \in Slots : Cardinality(RoundsOf(added, slot)) = 2
    /\ eLast.err = ErrExpiredEndorsement

C4_Step ==
    \A slot \in Slots :
        /\ RoundsOf(Retained', slot) =
              IF RoundsOf(added', slot) = {} THEN {}
              ELSE {Max(RoundsOf(added', slot))}
        /\ \A r \in RoundsOf(Retained, slot) :
              \E r2 \in RoundsOf(Retained', slot) : r <= r2

\* C4: after every AddEndorsement call, the set retains for each (endorser,
\* topic) the highest round among the accepted endorsements of that pair
\* (none if none was accepted), and the retained round of a pair is never
\* lower than it was before the call.
C4_RetainedRoundIsMax == [][C4_Step]_vars

\* C4 witness: rounds 0, 1 and 2 of one pair were accepted in turn, round 2
\* is retained, and a fourth call for the pair was rejected as expired
C4_Witness ==
    \E slot \in Slots :
        /\ RoundsOf(added, slot) = {0, 1, 2}
        /\ RoundsOf(Retained, slot) = {2}
        /\ eLast.err = ErrExpiredEndorsement
        /\ eLast.endorser = slot[1] /\ eLast.topic = slot[2]

(***************************************************************************)
(* Dispatcher: Start, Stop and the audit                                   *)
(***************************************************************************)
\* a Stop call is past its guard and has not returned
StopPending == stoppers.close + stoppers.wait > 0

C11_Step ==
    \* the admitted Stop returns: if a Start has returned, a consumer was
    \* started and every consumer has left newsHandler
    /\ (stoppers'.wait < stoppers.wait /\ startRes.ok >= 1)
       => /\ Len(consumers) >= 1
          /\ \A i \in 1..Len(consumers) : consumers[i].pc = "exited"
    \* a Stop call after the first returns at once and touches nothing
    /\ (shutdown' # shutdown /\ shutdown >= 1)
       => /\ stopRes' = stopRes + 1
          /\ quit' = quit
          /\ stoppers' = stoppers
          /\ crashed' = crashed
    \* d.quit is closed once
    /\ stoppers'.close < stoppers.close => ~quit

\* C11: when the first Stop returns after a Start has returned, the consumer
\* has exited (so no subscriber call of it is in progress); a later Stop call
\* returns at once, without error and without closing d.quit again; and a
\* Stop call past its guard returns eventually, every subscriber call
\* returning.
C11_StopJoinsConsumer ==
    /\ [][C11_Step]_vars
    /\ StopPending ~> ~StopPending

\* C11 witness: Start returned, an event was received, both Stop calls have
\* returned and the consumer has exited
C11_Witness ==
    /\ startRes.ok = 1
    /\ Len(consumed) >= 1
    /\ stopRes = 2 /\ ~StopPending
    /\ quit /\ ~crashed
    /\ Len(consumers) = 1 /\ consumers[1].pc = "exited"

\* C12: of the Start calls made so far exactly one, the first to pass the
\* guard, is or was past the guard; it alone returns nil and it alone starts
\* a consumer; every other call has returned the error and started nothing.
C12_StartOnce ==
    /\ started >= 1 => starters.add + starters.spawn + startRes.ok = 1
    /\ started >= 1 => startRes.err = started - 1
    /\ started = 0 => startRes = [ok |-> 0, err |-> 0] /\ consumers = <<>>
    /\ Len(consumers) = startRes.ok
    /\ wg \in {0, 1}

\* C12 witness: two Start calls have returned, one with nil and one with the
\* error, and the one consumer has received an event
C12_Witness ==
    /\ started = 2
    /\ startRes = [ok |-> 1, err |-> 1]
    /\ Len(consumers) = 1
    /\ Len(consumed) >= 1

\* the handler whose calls the audit count of a message type stands for
AuditedMethod(t) ==
    CASE t = MsgActionType -> "HandleAction"
      [] t = MsgBlockProtoMsgType -> "HandleBlock"
      [] t = MsgBlockSyncDataType -> "HandleBlockSync"
      [] t = MsgBlockSyncReqType -> "HandleSyncRequest"
      [] OTHER -> None

\* C13 (as claimed): as long as the process runs, the audit count of every
\* message type is the number of events of that type that reached a
\* subscriber handler.
C13_AuditCountsHandled ==
    ~crashed =>
        \A t \in MsgTypes :
            eventAudit[t] =
                Cardinality({k \in 1..Len(log) : log[k].method = AuditedMethod(t)})

(***************************************************************************)
(* Cached batch: snapshot tokens, PutIfNotExists, queue and cache          *)
(***************************************************************************)
\* C14 (as claimed): the token a Snapshot call returns is the number of
\* Snapshot calls made before it since the last Clear, so the tokens returned
\* between two Clear calls are 0, 1, 2, ...
C14_TokenCountsSnapshotCalls ==
    bLast.op = "Snapshot" => bLast.snapshot = nSnap - 1

\* C14 (amended): the token a Snapshot call returns is the number of
\* snapshots live at the call, those taken since the last Clear and not
\* discarded by a Revert: it is below the number of Snapshot calls made since
\* the last Clear, and the snapshot it names is the last of the stack.
C14_TokenCountsLiveSnapshots ==
    /\ Len(batchShots) = Len(taken) /\ Len(cacheShots) = Len(taken)
    /\ bLast.op = "Snapshot"
       => /\ bLast.snapshot = Len(taken) - 1
          /\ bLast.snapshot = tag - 1
          /\ bLast.snapshot <= nSnap - 1

\* C14 witness: the third Snapshot call since the last Clear has returned 1,
\* as the second did, a Revert(0) having come between them
C14_Witness ==
    /\ bLast.op = "Snapshot" /\ bLast.snapshot = 1
    /\ nSnap = 3
    /\ 1 \in discarded

\* a Revert call returns in this step
RevertReturns == bOps' = bOps + 1 /\ bLast'.op = "Revert"

\* the program state of the cached batch, cb.lock aside
BatchState ==
    <<writeQueue, KVStoreCache, cacheRef, tag, batchShots, cacheShots>>

\* C15 (as claimed): a Revert with a token whose snapshot was discarded, by a
\* Clear or by a Revert below it, fails with the invalid-snapshot error.
C15_DiscardedTokenFails ==
    [][(RevertReturns /\ bLast'.snapshot \in discarded)
          => bLast'.err = ErrInvalidDB]_vars

C15_Step ==
    RevertReturns
    => LET t == bLast'.snapshot
       IN  /\ bLast'.err = Nil <=> (0 <= t /\ t < Len(taken))
           /\ bLast'.err # Nil => bLast'.err = ErrInvalidDB
           /\ bLast'.err = Nil => Len(taken') = t + 1 /\ tag' = t + 1

\* C15 (amended): Revert(t) succeeds exactly when t is the token of a live
\* snapshot, 0 <= t < the number of snapshots taken since the last Clear and
\* not discarded by a Revert, and fails with the invalid-snapshot error
\* otherwise; after a successful Revert(t) exactly the tokens 0..t are live.
C15_RevertSucceedsOnLiveTokens == [][C15_Step]_vars

\* C15 witness: Revert(1) has failed, a Revert below 1 having discarded
\* snapshot 1, while snapshot 0 is live
C15_Witness ==
    /\ bLast.op = "Revert" /\ bLast.snapshot = 1 /\ bLast.err = ErrInvalidDB
    /\ 1 \in discarded
    /\ Len(taken) = 1

\* C16: a Revert with a negative token, or one not below the number of live
\* snapshots, returns the invalid-snapshot error and changes neither the
\* write queue nor the cache nor the snapshot stack.
C16_InvalidRevertChangesNothing ==
    [][(RevertReturns
        /\ (bLast'.snapshot < 0 \/ bLast'.snapshot >= Len(cacheShots)))
          => /\ bLast'.err = ErrInvalidDB
             /\ UNCHANGED BatchState]_vars

\* C16 witness: with a write queued after the one live snapshot, Revert(1)
\* has failed and the queue still holds the write
C16_Witness ==
    /\ bLast.op = "Revert" /\ bLast.snapshot = 1 /\ bLast.err = ErrInvalidDB
    /\ Len(cacheShots) = 1
    /\ Len(writeQueue) > batchShots[1]

\* a PutIfNotExists call returns in this step
PutIfNotExistsReturns == bOps' = bOps + 1 /\ bLast'.op = "PutIfNotExists"

C17_Step ==
    PutIfNotExistsReturns
    => LET w == bLast'.value
           held == Get(w.namespace, w.key).err = Nil
       IN  /\ w.writeType = PutIfNotExists
           /\ bLast'.err = ErrAlreadyExist <=> held
           /\ ~held => bLast'.err = Nil
           /\ held => UNCHANGED BatchState
           /\ ~held => /\ writeQueue' = Append(writeQueue, w)
                       /\ CacheRead(KVStoreCache', hash(w.namespace, w.key))
                             = [value |-> w.value, err |-> Nil]

\* C17: PutIfNotExists(ns, k, v) fails with the already-exists error exactly
\* when the cache holds an entry for (ns, k), and then changes neither the
\* write queue nor the cache; otherwise it appends one PutIfNotExists entry
\* to the queue and Get(ns, k) then returns v.
C17_PutIfNotExists == [][C17_Step]_vars

\* C17 witness: a PutIfNotExists of k1 has failed on a key the cache holds
\* with another value, after an earlier write had been staged
C17_Witness ==
    /\ bLast.op = "PutIfNotExists"
    /\ bLast.err = ErrAlreadyExist
    /\ bLast.value.key = "k1"
    /\ Get("ns", "k1").err = Nil
    /\ Get("ns", "k1").value # bLast.value.value
    /\ Len(writeQueue) >= 1

\* the positions of the writes to (namespace, key) in the write queue
WritesTo(namespace, key) ==
    {i \in 1..Len(writeQueue) : /\ writeQueue[i].namespace = namespace
                                /\ writeQueue[i].key = key}

\* what the write queue says a read of (namespace, key) returns
LastWriter(namespace, key) ==
    LET idx == WritesTo(namespace, key)
    IN  IF idx = {} \/ writeQueue[Max(idx)].writeType = Delete
          THEN [value |-> Nil, err |-> ErrNotExist]
          ELSE [value |-> writeQueue[Max(idx)].value, err |-> Nil]

\* C18: in every reachable state, Get(ns, k) returns the value of the last
\* entry for (ns, k) in the write queue when that entry is a Put or a
\* PutIfNotExists, and fails with not-found when it is a Delete or when the
\* queue has no entry for (ns, k).
C18_LastWriterWins ==
    \A ns \in Namespaces, k \in Keys : Get(ns, k) = LastWriter(ns, k)

\* a call that stages a write returns in this step
StagingReturns ==
    /\ bOps' = bOps + 1
    /\ \/ bLast'.op \in {"Put", "Delete"}
       \/ bLast'.op = "PutIfNotExists" /\ bLast'.err = Nil

\* a call that clears the batch returns in this step: Clear, ClearAndUnlock
\* or a commit that succeeded
ClearingReturns ==
    /\ bOps' = bOps + 1
    /\ \/ bLast'.op \in {"Clear", "ClearAndUnlock"}
       \/ bLast'.op = "Commit" /\ bLast'.err = Nil

C19_Step ==
    /\ StagingReturns
         => /\ writeQueue' = Append(writeQueue, bLast'.value)
            /\ bLast'.value.writeType = bLast'.op
    /\ (RevertReturns /\ bLast'.err = Nil)
         => /\ writeQueue' = taken[bLast'.snapshot + 1].queue
            /\ writeQueue' = SubSeq(writeQueue, 1, Len(writeQueue'))
    /\ ClearingReturns => writeQueue' = <<>>
    /\ (bOps' = bOps + 1 /\ ~StagingReturns /\ ~ClearingReturns
        /\ ~(RevertReturns /\ bLast'.err = Nil))
         => writeQueue' = writeQueue
    /\ Size' = Len(writeQueue')
    /\ \A i \in 0..(Size' - 1) : Entry(i)' = [write |-> writeQueue'[i + 1],
                                              err |-> Nil]
    /\ Entry(-1)'.err # Nil /\ Entry(Size)'.err # Nil

\* C19: the write queue holds, in call order, exactly the entries staged by
\* successful Put, Delete and PutIfNotExists calls that no Revert and no
\* Clear has removed: a staging call appends its entry at the end, a Revert
\* leaves the queue of its snapshot, a Clear empties the queue and every
\* other call leaves it; Entry(i) is the i-th entry and Size() their number.
C19_InsertionOrder == [][C19_Step]_vars

\* C19 witness: a Put, a Delete and a PutIfNotExists are queued in this
\* order while a snapshot is live
C19_Witness ==
    /\ Size = 3
    /\ Entry(0).write.writeType = Put
    /\ Entry(1).write.writeType = Delete
    /\ Entry(2).write.writeType = PutIfNotExists
    /\ taken # <<>>
    /\ bOps = MaxBatchOps

\* a Commit of the batch returns in this step
CommitReturns == bOps' = bOps + 1 /\ bLast'.op = "Commit"

C20_Step ==
    /\ CommitReturns => bLast'.value = writeQueue
    /\ (CommitReturns /\ bLast'.err = Nil)
         => /\ writeQueue' = <<>>
            /\ KVStoreCache' = NewKVCache
            /\ tag' = 0 /\ batchShots' = <<>> /\ cacheShots' = <<>>
    /\ (CommitReturns /\ bLast'.err # Nil) => UNCHANGED BatchState
    /\ (CommitReturns /\ bLast.op = "Commit" /\ bLast.err # Nil)
         => bLast'.value = bLast.value

ClearReturns == bOps' = bOps + 1 /\ bLast'.op \in {"Clear", "ClearAndUnlock"}

\* Clear or ClearAndUnlock was the last call to return
JustCleared == bLast.op \in {"Clear", "ClearAndUnlock"}

C21_Step ==
    /\ ClearReturns
         => /\ Size' = 0
            /\ \A ns \in Namespaces, k \in Keys :
                  CacheRead(KVStoreCache', hash(ns, k))
                     = [value |-> Nil, err |-> ErrNotExist]
            /\ batchShots' = <<>> /\ cacheShots' = <<>>
            /\ \A t \in -1..MaxBatchOps : InvalidSnapshot(t)'
    /\ (JustCleared /\ RevertReturns) => bLast'.err = ErrInvalidDB
    /\ (JustCleared /\ bOps' = bOps + 1 /\ bLast'.op = "Snapshot")
         => bLast'.snapshot = 0
    /\ (JustCleared /\ bOps' = bOps + 1 /\ bLast'.op = "Get")
         => bLast'.err = ErrNotExist

\* C21: Clear and ClearAndUnlock empty the write queue, the cache and the
\* snapshot stack: afterwards Size() is 0, Get fails with not-found for every
\* key, Revert fails for every token and the next Snapshot returns 0.
C21_ClearEmptiesBatch == [][C21_Step]_vars

\* C21 witness: a Snapshot has returned 0 again, after a clearing dropped
\* the snapshot that had token 0 before
C21_Witness ==
    /\ bLast.op = "Snapshot" /\ bLast.snapshot = 0
    /\ 0 \in discarded
    /\ nSnap = 1
    /\ writeQueue = <<>>
    /\ bOps >= 4

\* the set retains an endorsement of en's endorser and topic whose round is
\* en's round or a higher one
RetainedNotBelow(en) ==
    \E i \in 1..Len(endorsements) :
        /\ endorsements[i].endorser = en.endorser
        /\ endorsements[i].topic = en.topic
        /\ endorsements[i].round >= en.round

\* the fields of the endorsement set
SetState == <<blkHash, round, endorsements>>

\* C22 (as claimed): AddEndorsement of any endorsement whose (endorser,
\* topic) is retained with an equal or higher round returns the
\* expired-endorsement error and leaves the set unchanged.
C22_ExpiredWhenRetained ==
    [][\A en \in Endorsements :
          (AddEndorsement(en) /\ RetainedNotBelow(en))
             => /\ eLast'.err = ErrExpiredEndorsement
                /\ UNCHANGED SetState]_vars

\* C22 (amended): AddEndorsement of an endorsement that carries the set's
\* block hash and a valid signature, and whose (endorser, topic) is retained
\* with an equal or higher round, returns the expired-endorsement error and
\* leaves the set unchanged; whatever its hash and signature, the call
\* leaves the set unchanged.
C22_ExpiredWhenRetainedAndValid ==
    [][\A en \in Endorsements :
          (AddEndorsement(en) /\ RetainedNotBelow(en))
             => /\ (en.blkHash = blkHash /\ en.sigOK)
                      => eLast'.err = ErrExpiredEndorsement
                /\ eLast'.err # Nil
                /\ UNCHANGED SetState]_vars

\* C22 witness: an endorsement of A on LOCK has been rejected as expired
\* while the set retains A's LOCK endorsement of round 2, which replaced
\* the one of round 1
C22_Witness ==
    /\ eLast = [endorser |-> "A", topic |-> "LOCK",
                err |-> ErrExpiredEndorsement]
    /\ Len(endorsements) = 1
    /\ endorsements[1].endorser = "A" /\ endorsements[1].topic = "LOCK"
    /\ endorsements[1].round = 2
    /\ Cardinality(added) = 2

\* C23: AddEndorsement rejects an endorsement whose block hash differs from
\* the set's with the invalid-hash error, whatever its signature, and one
\* with the set's block hash and a failing signature check with the
\* invalid-signature error; in both cases the endorsements, the block hash
\* and the locked round of the set are unchanged.
C23_HashThenSignature ==
    [][\A en \in Endorsements :
          AddEndorsement(en)
             => /\ en.blkHash # blkHash
                      => eLast'.err = ErrInvalidHash /\ UNCHANGED SetState
                /\ (en.blkHash = blkHash /\ ~en.sigOK)
                      => /\ eLast'.err = ErrInvalidEndorsement
                         /\ UNCHANGED SetState]_vars

\* C23 witness: an endorsement has been rejected for its block hash by a
\* set that holds an endorsement
C23_Witness ==
    /\ eLast.err = ErrInvalidHash
    /\ Len(endorsements) >= 1

\* an endorsement has been rejected for its signature by a set that holds
\* an endorsement
C23_SignatureWitness ==
    /\ eLast.err = ErrInvalidEndorsement
    /\ Len(endorsements) >= 1

\* the endorsers of the list that have a retained endorsement on one of the
\* topics
ValidEndorsers(topics, endorsers) ==
    {a \in {endorsers[j] : j \in 1..Len(endorsers)} :
        \E i \in 1..Len(endorsements) : /\ endorsements[i].endorser = a
                                        /\ endorsements[i].topic \in topics}

\* the count the last call returned is the number of distinct endorsers of
\* its list with a retained endorsement on one of its topics
CountedDistinct ==
    eRet # NoRet
    => /\ eRet.cnt = Cardinality(ValidEndorsers(eRet.topics, eRet.endorsers))
       /\ eRet.cnt <= Cardinality({eRet.endorsers[j] :
                                      j \in 1..Len(eRet.endorsers)})

\* C24: NumOfValidEndorsements(topics, endorsers) returns the number of
\* distinct endorsers of the list that have a retained endorsement whose
\* topic is among the topics, so never more than the number of distinct
\* endorsers given, and it leaves the set unchanged.
C24_CountsDistinctEndorsers ==
    [][CountedDistinct' /\ (eRet' # NoRet => UNCHANGED SetState)]_vars

\* C24 witness: A, listed twice, retains an endorsement on each of the two
\* topics asked for, and is counted once
C24_Witness ==
    /\ eRet.endorsers = <<"A", "A">>
    /\ eRet.topics = {"PROPOSAL", "LOCK"}
    /\ \A t \in Topics : \E i \in 1..Len(endorsements) :
          endorsements[i].endorser = "A" /\ endorsements[i].topic = t
    /\ eRet.cnt = 1

C26_TargetHeightMonotone ==
    [][/\ targetHeight' >= targetHeight
       /\ targetHeight' = Max({0} \cup wPassed')
       /\ targetHeight' # targetHeight
            => /\ wSets' = wSets + 1
               /\ targetHeight' \in wPassed' /\ targetHeight' > targetHeight]_vars

\* C26 witness: three calls have passed 0, 1 and 2 in some order, a Sync
\* tick has run, and the target is 2
C26_Witness ==
    /\ wPassed = {0, 1, 2} /\ wSets = 3
    /\ wTicks >= 1
    /\ targetHeight = 2

\* a Sync tick returns in this step
SyncReturns == wTicks' = wTicks + 1

C27_Step ==
    (SyncReturns /\ wLast'.peers # <<>>)
    => /\ Len(wLast'.reqs) = Len(wLast'.intervals)
       /\ \A i \in 1..Len(wLast'.intervals) :
             /\ wLast'.reqs[i].Start = wLast'.intervals[i].Start
             /\ wLast'.reqs[i].End = wLast'.intervals[i].End

\* C27: a Sync tick with a non-empty peer list makes exactly one unicast
\* request per interval the buffer returned, in the order of the intervals
\* and with their Start and End, whether or not a unicast fails.
C27_OneRequestPerInterval == [][C27_Step]_vars

\* C27 witness: a tick with three intervals has made three requests, of
\* which the first one failed
C27_Witness ==
    /\ Len(wLast.intervals) = 3
    /\ Len(wLast.reqs) = 3
    /\ wLast.reqs[1].err /\ ~wLast.reqs[3].err

\* the latest unicast request made so far: its list position and the peer
\* list of its tick
LatestReq ==
    IF wLast.reqs = <<>> THEN lastReq
    ELSE [pos |-> wLast.reqs[Len(wLast.reqs)].pos, peers |-> wLast.peers]

C28_Step ==
    (SyncReturns /\ wLast'.reqs # <<>>)
    => LET peers == wLast'.peers
           reqs == wLast'.reqs
           n == Len(peers)
       IN  /\ reqs[1].pos = rrIdx % n
           /\ \A j \in 1..Len(reqs) : reqs[j].peer = peers[reqs[j].pos + 1]
           /\ \A j \in 1..(Len(reqs) - 1) :
                 reqs[j + 1].pos = (reqs[j].pos + 1) % n
           /\ rrIdx' = reqs[Len(reqs)].pos + 1
           /\ (LatestReq # NoReq /\ LatestReq.peers = peers)
                 => reqs[1].pos = (LatestReq.pos + 1) % n
           /\ (LatestReq = NoReq /\ peers = <<"P1", "P2", "P3", "P1">>
               /\ Len(reqs) = 3)
                 => /\ reqs[1].peer = "P1" /\ reqs[2].peer = "P2"
                    /\ reqs[3].peer = "P3"

\* C28: the worker keeps one index across ticks that advances by one per
\* request, failed or not; each request goes to the peer at that index
\* modulo the number of peers, so with an unchanged peer list consecutive
\* requests, also of two ticks, go to consecutive list positions in cyclic
\* order, and the first three requests against [P1, P2, P3, P1] go to P1,
\* P2 and P3.
C28_RoundRobin == [][C28_Step]_vars

\* C28 witness: with the peers [P1, P2, P3] in both ticks, the first tick
\* ended at position 1 and the second one went on with 2, 0 and 1
C28_Witness ==
    /\ wTicks = 2
    /\ lastReq = [pos |-> 1, peers |-> <<"P1", "P2", "P3">>]
    /\ wLast.peers = <<"P1", "P2", "P3">>
    /\ Len(wLast.reqs) = 3
    /\ wLast.reqs[1].pos = 2 /\ wLast.reqs[2].pos = 0 /\ wLast.reqs[3].pos = 1
    /\ wLast.reqs[2].err

(***************************************************************************)
(* Base batch: properties                                                  *)
(***************************************************************************)
\* the record (namespace, key) exists in the base batch: the last write to
\* it in the queue is a Put or a PutIfNotExists
ExistsInBase(namespace, key) ==
    LET idx == {i \in 1..Len(baseWriteQueue) :
                   /\ baseWriteQueue[i].namespace = namespace
                   /\ baseWriteQueue[i].key = key}
    IN  idx # {} /\ baseWriteQueue[Max(idx)].writeType # Delete

\* C29: on the base batch NewBatch returns, PutIfNotExists stages the
\* record only if (namespace, key) does not exist in the batch, and
\* otherwise returns the already-exists error and leaves the write queue.
C29_BasePutIfNotExists ==
    [][(nOps' = nOps + 1 /\ nLast'.op = "PutIfNotExists")
         => IF ExistsInBase(nLast'.write.namespace, nLast'.write.key)
              THEN /\ nLast'.err = ErrAlreadyExist
                   /\ baseWriteQueue' = baseWriteQueue
              ELSE /\ nLast'.err = Nil
                   /\ baseWriteQueue' = Append(baseWriteQueue, nLast'.write)]_vars

(***************************************************************************)
(* Dispatcher: the lock of the subscriber map                              *)
(***************************************************************************)
\* a consumer receives an actionMsg or a blockSyncMsg in this step, and so
\* reads d.subscribers in handleActionMsg or handleBlockSyncMsg
UnlockedRead ==
    /\ Len(consumed') = Len(consumed) + 1
    /\ eventChan # <<>>
    /\ Head(eventChan).kind # "blockMsg"

\* C30: every read of the subscriber map happens with d.subscribersMU held:
\* the consumer never reads the map, for an action or a sync request, while
\* an AddSubscriber call holds the lock and writes the map.
C30_MapReadUnderLock == [][UnlockedRead => ~subscribersMU.writer]_vars

(***************************************************************************)
(* Cached batch: PutIfNotExists after Delete, snapshot bookkeeping         *)
(***************************************************************************)
C32_Step ==
    (PutIfNotExistsReturns /\ bLast.op = "Delete"
     /\ bLast'.value.namespace = bLast.value.namespace
     /\ bLast'.value.key = bLast.value.key)
    => /\ bLast'.err = Nil
       /\ writeQueue[Len(writeQueue)] = bLast.value
       /\ writeQueue' = Append(writeQueue, bLast'.value)
       /\ CacheRead(KVStoreCache', hash(bLast'.value.namespace,
                                        bLast'.value.key))
             = [value |-> bLast'.value.value, err |-> Nil]

\* C32: PutIfNotExists decides existence by the cache only: right after a
\* Delete(ns, k), whether or not a Put(ns, k, v1) came before it,
\* PutIfNotExists(ns, k, v2) succeeds, appends its entry after the Delete
\* in the queue, and Get(ns, k) returns v2.
C32_PutIfNotExistsAfterDelete == [][C32_Step]_vars

\* C32 witness: Put(ns, k1, v1), Delete(ns, k1) and PutIfNotExists(ns, k1,
\* v2) are queued in this order and Get(ns, k1) returns v2
C32_Witness ==
    /\ bLast.op = "PutIfNotExists" /\ bLast.err = Nil
    /\ writeQueue = <<writeInfo(Put, "ns", "k1", "v1"),
                      writeInfo(Delete, "ns", "k1", Nil),
                      writeInfo(PutIfNotExists, "ns", "k1", "v2")>>
    /\ Get("ns", "k1") = [value |-> "v2", err |-> Nil]

\* C37: the snapshot bookkeeping of a cached batch is well formed: there are
\* as many recorded queue lengths and as many recorded cache copies as the
\* tag says, the recorded lengths do not decrease from the oldest to the
\* newest snapshot, and none exceeds the current length of the queue, so
\* that Revert never truncates the queue to more than its length.
C37_SnapshotBookkeeping ==
    /\ Len(batchShots) = tag
    /\ Len(cacheShots) = tag
    /\ \A i, j \in 1..Len(batchShots) : i <= j => batchShots[i] <= batchShots[j]
    /\ \A i \in 1..Len(batchShots) :
          batchShots[i] >= 0 /\ batchShots[i] <= Len(writeQueue)

\* C37 witness: a Revert(0) has cut the queue from two entries to the one
\* that snapshot 0 recorded, and has dropped snapshot 1
C37_Witness ==
    /\ bLast.op = "Revert" /\ bLast.err = Nil /\ bLast.snapshot = 0
    /\ tag = 1 /\ batchShots = <<1>>
    /\ Len(writeQueue) = 1
    /\ 1 \in discarded


(***************************************************************************)
(* Endorsement set: FromProto on any message, SetRound                     *)
(***************************************************************************)
\* a SetRound call has just returned
SetRoundReturns == sLast'.op = "SetRound" /\ sLast' # sLast

\* a FromProto call has just returned
FromProtoReturns == sLast'.op = "FromProto" /\ sLast' # sLast

\* C33: in every reachable state of a set under NewSet, AddEndorsement,
\* SetRound and FromProto, every retained endorsement carries the block
\* hash of the set and no two retained endorsements have the same
\* endorser and topic.
C33_HashAndSlotInvariant ==
    /\ \A i \in 1..Len(endorsements) : endorsements[i].blkHash = blkHash
    /\ \A i, j \in 1..Len(endorsements) :
          i # j => ~SameSlot(endorsements[i], endorsements[j])

\* C34: SetRound(r) records r as the locked round whatever the round was,
\* Round() returns the value of the last SetRound, SetRound leaves the
\* block hash and the endorsements as they were, and AddEndorsement does
\* not change the locked round.
C34_Step ==
    /\ SetRoundReturns
          => /\ Round' = sLast'.r
             /\ UNCHANGED <<blkHash, endorsements>>
    /\ sLast'.op = "SetRound" => Round' = sLast'.r
    /\ eCalls' = eCalls + 1 => Round' = Round

C34_SetRoundFrame == [][C34_Step]_vars

\* the last SetRound call, SetRound(1), was made on a set locked at round
\* 2; the set holds an endorsement and its locked round is 1
C34_Witness ==
    /\ sLast.op = "SetRound" /\ sLast.r = 1 /\ sLast.prev = 2
    /\ Round = 1
    /\ Len(endorsements) = 1
    /\ eLast.err = Nil

\* C38: a FromProto call that returns an error leaves the block hash, the
\* locked round and the endorsements of the set as they were before the
\* call.
C38_Step == (FromProtoReturns /\ sLast'.err # Nil) => UNCHANGED SetState

C38_FromProtoErrorKeepsSet == [][C38_Step]_vars

(***************************************************************************)
(* Sync worker: a tick without peers, the range of the peer index          *)
(***************************************************************************)
\* C35: a Sync tick that finds the peer list empty makes no unicast
\* request and leaves the round-robin index and the target height as they
\* were.
C35_Step ==
    (SyncReturns /\ wLast'.peers = <<>>)
    => /\ wLast'.reqs = <<>>
       /\ rrIdx' = rrIdx
       /\ targetHeight' = targetHeight

C35_NoPeerNoEffect == [][C35_Step]_vars

\* the last tick found no peer although there were intervals to ask for;
\* earlier ticks made two requests and the target height was set to 1
C35_Witness ==
    /\ wLast.peers = <<>>
    /\ wLast.intervals # <<>>
    /\ wLast.reqs = <<>>
    /\ rrIdx = 2
    /\ targetHeight = 1

\* C39: the index Sync selects a peer with is at least 0 and below the
\* number of peers of the tick, also when the list is shorter than in
\* earlier ticks, and the round-robin index is never negative.
C39_PeerIndexInRange ==
    /\ rrIdx >= 0
    /\ \A j \in 1..Len(wLast.reqs) :
          /\ wLast.reqs[j].pos >= 0
          /\ wLast.reqs[j].pos < Len(wLast.peers)
          /\ wLast.reqs[j].peer = wLast.peers[wLast.reqs[j].pos + 1]

\* a tick with one peer made a request after a tick with four peers had
\* left the round-robin index at 3
C39_Witness ==
    /\ Len(lastReq.peers) = 4
    /\ lastReq.pos = 2
    /\ Len(wLast.peers) = 1
    /\ Len(wLast.reqs) = 3
    /\ wLast.reqs[1].pos = 0
    /\ rrIdx = 1

(***************************************************************************)
(* Sub-chain protocol: what a failing handleStopSubChain has written       *)
(***************************************************************************)
\* a handleStopSubChain call returns in this step
StopReturns == stopCalls' = stopCalls + 1

\* C40: a handleStopSubChain that returns an error because the stop height
\* is not above the chain height, because the sender is not the owner of
\* the sub-chain, or because the sub-chain is not in operation has written
\* neither the sub-chain, nor the account of the sender, nor the list of
\* sub-chains in operation to the state manager.
C40_Step ==
    (StopReturns
     /\ stopLast'.err \in {ErrStopHeight, ErrNotOwner, ErrNotInOperation})
    => /\ stopLast'.puts = <<>>
       /\ smStates' = smStates

C40_NoWriteOnError == [][C40_Step]_vars

(***************************************************************************)
(* Dispatcher: messages that arrive after Stop has returned                *)
(***************************************************************************)
\* the message types the dispatch functions turn into events
DispatchedTypes ==
    {MsgActionType, MsgBlockProtoMsgType, MsgBlockSyncReqType,
     MsgBlockSyncDataType}

\* C36: a HandleBroadcast of an Action or Block message, or a HandleTell of
\* a BlockSync request or BlockSync data, that is called after a Stop call
\* has returned adds no event to the event queue and causes no subscriber
\* handler call.
C36_NoEventAfterStop ==
    \A id \in afterStop :
       calls[id].msgType \in DispatchedTypes
       => /\ id \notin QueuedIds
          /\ \A k \in 1..Len(consumed) : consumed[k] # id
          /\ LogOf(id) = {}

\* an action message for a registered subscriber arrived after Stop had
\* returned, and the event of an earlier block-sync request was handled
C36_Witness ==
    /\ Len(calls) = 2
    /\ afterStop = {2}
    /\ calls[2].msgType = MsgActionType /\ calls[2].registered
    /\ calls[1].msgType = MsgBlockSyncReqType
    /\ LogOf(1) # {}
    /\ stopRes = 1

(***************************************************************************)
(* Cached batch: Snapshot among concurrent writes                          *)
(***************************************************************************)
\* the cache after the write w
AfterWrite(c, w) ==
    IF w.writeType = Delete THEN CacheEvict(c, hash(w.namespace, w.key))
    ELSE CacheWrite(c, hash(w.namespace, w.key), w.value)

\* the cache after the writes q[i], ..., q[n]
RECURSIVE AfterWrites(_, _, _, _)
AfterWrites(c, q, i, n) ==
    IF i > n THEN c ELSE AfterWrites(AfterWrite(c, q[i]), q, i + 1, n)

\* the goroutines inside a call
InCall == {c \in Writers : callers[c].pc # "idle"}

\* C31: under any interleaving of concurrent Put, Delete, PutIfNotExists
\* and Snapshot calls on one cached batch, the queue length and the cache
\* copy a snapshot records describe the same point of the write order (a
\* write is in both or in neither), and no two calls are between their
\* first and their last statement at once, so that the cache update and
\* the queue append of one call are not interleaved with another's.
C31_SnapshotLinearizable ==
    /\ \A i \in 1..Len(cacheShots) :
          /\ i <= Len(batchShots)
          /\ batchShots[i] <= Len(writeQueue)
          /\ cacheShots[i] = AfterWrites(NewKVCache, writeQueue, 1, batchShots[i])
    /\ Cardinality(InCall) <= 1
    /\ InCall = {}
          => KVStoreCache = AfterWrites(NewKVCache, writeQueue, 1, Len(writeQueue))

\* a Put of k1 has written the cache and not yet the queue; a snapshot
\* was taken between an earlier write of k1 and this one, and its cache
\* copy differs from the cache
C31_Witness ==
    /\ \E c \in Writers :
          /\ callers[c].pc = "cached"
          /\ callers[c].call = writeInfo(Put, "ns", "k1", "v2")
    /\ writeQueue = <<writeInfo(Put, "ns", "k1", "v1")>>
    /\ batchShots = <<1>>
    /\ Len(cacheShots) = 1
    /\ cacheShots[1] # KVStoreCache
====
